---------------------------- MODULE Spec2Model ----------------------------
(***************************************************************************)
(* Live OHLC streaming service (Microservices/Port8003.py): the Resamplers, *)
(* the ConnectionManager with its subscription groups, the per-client      *)
(* WebSocket handler, the per-group Redis listener and the cleanup loop.   *)
(*                                                                         *)
(* The service runs on one asyncio event loop: a coroutine runs without    *)
(* interruption from one await that really suspends to the next.  Every     *)
(* action below is one such uninterrupted segment.                         *)
(*                                                                         *)
(* Timestamps are Python floats (doubles).  The model counts time in the    *)
(* steps of the doubles between 2^30 and 2^31 seconds (the epoch seconds   *)
(* of the years 2004 to 2038): one unit is 2^-22 s, about 0.238            *)
(* microseconds, and a timestamp is its distance from an origin of that    *)
(* magnitude.  A microsecond is 4.194304 units.  The intervals of the time *)
(* bars and the zone offsets are scaled down to small multiples of the     *)
(* unit: for them only the order of the timestamps and their quotients by  *)
(* the interval matter.                                                    *)
(***************************************************************************)
EXTENDS Integers, Sequences, FiniteSets, TLC

(***************************************************************************)
(* Bounds of the model.                                                    *)
(***************************************************************************)
\* number of messages the ingestion pipeline publishes on live_ticks:{symbol}
MaxTicks == 3
\* number of clients whose connection breaks or stalls
MaxFaults == 1
\* number of ticks, faults and sweeps of one run, taken together
MaxEvents == 3

(***************************************************************************)
(* Values.                                                                 *)
(***************************************************************************)
\* Optional[T] is a sequence of length 0 (None) or 1.
None == <<>>
Some(x) == <<x>>
IsNone(o) == Len(o) = 0
IsSome(o) == Len(o) = 1
Get(o) == o[1]

Max2(a, b) == IF a >= b THEN a ELSE b
Min2(a, b) == IF a <= b THEN a ELSE b

\* x + 0.000001 for a double x of epoch magnitude: the sum is rounded to the
\* nearest double, which is x plus this many units (0.95367 microseconds).
Microsecond == 4

\* Known zones and their UTC offsets in time units; ZoneInfo() of any other
\* name raises ZoneInfoNotFoundError and the Resampler falls back to UTC.
KnownZones == {"UTC", "Etc/GMT-1"}
ZoneOffset(tz) == IF tz = "Etc/GMT-1" THEN 1 ELSE 0
ResolveZone(timezone_str) == IF timezone_str \in KnownZones THEN timezone_str ELSE "UTC"

\* A tick as decoded from JSON: a dict that may lack keys.
WellFormed(tick_data) == {"price", "volume", "timestamp"} \subseteq DOMAIN tick_data

Candle(o, h, l, c, v, ts) ==
    [open |-> o, high |-> h, low |-> l, close |-> c, volume |-> v, unix_timestamp |-> ts]

(***************************************************************************)
(* Intervals are given as a value and a unit: "2s" is [value |-> 2,        *)
(* unit |-> "s"], "2tick" is [value |-> 2, unit |-> "tick"].               *)
(***************************************************************************)
Interval(v, u) == [value |-> v, unit |-> u]
IsTickInterval(interval) == interval.unit = "tick"

\* BarResampler._parse_interval: seconds of the interval, None for a unit
\* other than s, m, h (the constructor raises ValueError).
ParseInterval(interval) ==
    CASE interval.unit = "s" -> Some(interval.value)
      [] interval.unit = "m" -> Some(interval.value * 60)
      [] interval.unit = "h" -> Some(interval.value * 3600)
      [] OTHER -> None

\* Whether constructing the Resampler for this interval succeeds.
CanConstruct(interval) == IsTickInterval(interval) \/ IsSome(ParseInterval(interval))

\* TickBarResampler.__init__ / BarResampler.__init__
NewResampler(interval, timezone_str) ==
    IF IsTickInterval(interval)
    THEN [kind |-> "tick", ticks_per_bar |-> interval.value, tz |-> ResolveZone(timezone_str),
          current_bar |-> None, tick_count |-> 0, last_completed_bar_timestamp |-> None]
    ELSE [kind |-> "time", interval_seconds |-> Get(ParseInterval(interval)),
          tz |-> ResolveZone(timezone_str), current_bar |-> None]

\* The return of add_bar for a tick that lacks a key: nothing is completed
\* and the Resampler is as it was.
DroppedFaulty(r) == [resampler |-> [r EXCEPT !.current_bar = None], completed |-> None]

Dropped(r) == [resampler |-> r, completed |-> None]

\* A bar after one more tick (a faulty variant first: the high is not raised).
MergedFaulty(bar, price, volume) ==
    Candle(bar.open, bar.high, Min2(bar.low, price), price, bar.volume + volume,
           bar.unix_timestamp)

\* Lines 102-105 and 170-173: high, low, close and volume take the tick in;
\* open and unix_timestamp stay.
Merged(bar, price, volume) ==
    Candle(bar.open, Max2(bar.high, price), Min2(bar.low, price), price, bar.volume + volume,
           bar.unix_timestamp)

\* Line 109: the tick bar is complete (a faulty variant first: one tick late).
BarIsFullFaulty(tick_count, ticks_per_bar) == tick_count > ticks_per_bar

BarIsFull(tick_count, ticks_per_bar) == tick_count >= ticks_per_bar

\* The first bar of a time Resampler or the bar after a completed one (a
\* faulty variant first: the tick's volume is left out).
FreshBarFaulty(price, volume, bar_start_unix) ==
    Candle(price, price, price, price, 0, bar_start_unix)

\* Lines 164 and 167.
FreshBar(price, volume, bar_start_unix) ==
    Candle(price, price, price, price, volume, bar_start_unix)

\* The wall clock of instant t in zone tz, its fields read as if they were UTC.
FakeUtc(t, tz) == t + ZoneOffset(tz)

\* "Ensure timestamps are always unique and increasing": a display timestamp
\* not after the last completed bar's becomes that timestamp plus 0.000001.
UniqueTimestamp(raw_ts, last_completed_bar_timestamp) ==
    IF IsSome(last_completed_bar_timestamp) /\ raw_ts <= Get(last_completed_bar_timestamp)
    THEN Get(last_completed_bar_timestamp) + Microsecond
    ELSE raw_ts

\* TickBarResampler.add_bar: the new state and the completed bar, if any.
TickAddBar(r, tick_data) ==
    IF ~WellFormed(tick_data) THEN Dropped(r)
    ELSE
    LET price == tick_data.price
        volume == tick_data.volume
        raw_ts == FakeUtc(tick_data.timestamp, r.tz)
        fake_unix_timestamp == UniqueTimestamp(raw_ts, r.last_completed_bar_timestamp)
        started == IF IsNone(r.current_bar)
                   THEN Candle(price, price, price, price, 0, fake_unix_timestamp)
                   ELSE Get(r.current_bar)
        bar == Merged(started, price, volume)
        count == r.tick_count + 1
    IN  IF BarIsFull(count, r.ticks_per_bar)
        THEN [resampler |-> [r EXCEPT !.current_bar = None, !.tick_count = 0,
                                      !.last_completed_bar_timestamp = Some(bar.unix_timestamp)],
              completed |-> Some(bar)]
        ELSE [resampler |-> [r EXCEPT !.current_bar = Some(bar), !.tick_count = count],
              completed |-> None]

\* A faulty bar start: the instant is not floored to the interval.
BarStartUnixUnfloored(t, interval_seconds, tz) == FakeUtc(t, tz)

\* The start of the bar a tick at instant t falls in, as a display timestamp:
\* local_dt.timestamp() is the instant itself, so the floor is taken on the
\* epoch clock and the zone's offset is added afterwards.
BarStartUnix(t, interval_seconds, tz) == FakeUtc(t - (t % interval_seconds), tz)

\* BarResampler.add_bar: the new state and the completed bar, if any.
TimeAddBar(r, tick_data) ==
    IF ~WellFormed(tick_data) THEN Dropped(r)
    ELSE
    LET price == tick_data.price
        volume == tick_data.volume
        bar_start_unix == BarStartUnix(tick_data.timestamp, r.interval_seconds, r.tz)
        fresh == FreshBar(price, volume, bar_start_unix)
    IN  IF IsNone(r.current_bar)
        THEN [resampler |-> [r EXCEPT !.current_bar = Some(fresh)], completed |-> None]
        ELSE LET cur == Get(r.current_bar) IN
             IF bar_start_unix > cur.unix_timestamp
             THEN [resampler |-> [r EXCEPT !.current_bar = Some(fresh)],
                   completed |-> Some(cur)]
             ELSE [resampler |-> [r EXCEPT !.current_bar = Some(Merged(cur, price, volume))],
                   completed |-> None]

\* resampler.add_bar(tick_data), whichever class the Resampler is of.
AddBar(r, tick_data) ==
    IF r.kind = "tick" THEN TickAddBar(r, tick_data) ELSE TimeAddBar(r, tick_data)

\* The fold of resample_ticks_to_bars: the Resampler after ticks[1..n] and the
\* completed bars so far.
RECURSIVE FoldTicks(_, _, _)
FoldTicks(r, ticks, n) ==
    IF n = 0 THEN [resampler |-> r, bars |-> <<>>]
    ELSE LET prev == FoldTicks(r, ticks, n - 1)
             step == AddBar(prev.resampler, ticks[n])
         IN  [resampler |-> step.resampler, bars |-> prev.bars \o step.completed]

\* resample_ticks_to_bars: a fresh Resampler of its own, the completed bars
\* and at the end the bar still in progress.
ResampleTicksToBars(ticks, interval, timezone_str) ==
    IF Len(ticks) = 0 THEN <<>>
    ELSE LET f == FoldTicks(NewResampler(interval, timezone_str), ticks, Len(ticks))
         IN  f.bars \o f.resampler.current_bar

(***************************************************************************)
(* The ConnectionManager and the tasks around it.                          *)
(***************************************************************************)
\* The WebSocket objects of the clients that may connect, in order of arrival.
Clients == {"c1", "c2"}
Earlier(c) == IF c = "c2" THEN {"c1"} ELSE {}
\* The instruments; the channel of an instrument is live_ticks:{symbol}.
Symbols == {"X"}
\* The views a client may present on /ws/live/{symbol}/{interval}/{timezone}.
Views == { [symbol |-> "X", interval |-> Interval(2, "s"), timezone |-> "UTC"],
           [symbol |-> "X", interval |-> Interval(4, "s"), timezone |-> "UTC"],
           [symbol |-> "X", interval |-> Interval(2, "s"), timezone |-> "Etc/GMT-1"],
           [symbol |-> "X", interval |-> Interval(1, "d"), timezone |-> "UTC"] }
\* The view of a client that made no request (yet).
NoView == [symbol |-> "X", interval |-> Interval(0, "none"), timezone |-> "UTC"]
\* A SubscriptionGroup object is named after the client whose add_connection
\* created it (a client creates at most one).
GroupIds == Clients
\* A tick of the ingestion pipeline.
Tick(t) == [price |-> 1, volume |-> 1, timestamp |-> t]

VARIABLES
    conn_info,            \* ConnectionManager.connections: websocket -> Optional[ConnectionInfo]
    subscription_groups,  \* ConnectionManager.subscription_groups: symbol -> Optional[group]
    group,                \* the SubscriptionGroup objects ever created
    payloads,             \* per group: the local variable payloads of _process_tick_for_group
    sends,                \* the send_json() coroutines of the listeners' gather() calls
    pubsub,               \* per group: the messages its PubSub holds, not yet consumed
    stream,               \* every tick published so far = the list intraday_ticks:{symbol}
    pc,                   \* per client: where websocket_handler is
    view,                 \* per client: the path parameters of its request
    my_group,             \* per client: the local variable group of add_connection
    bf_bars,              \* per client: the backfill frame about to be sent
    transport,            \* per client: the state of its connection
    cleanup,              \* _cleanup_loop: the group whose unsubscribe it awaits, if any
    \* history, for the properties only
    cache_read,           \* per client: how many ticks had been published at its cache read
    backfill_frame,       \* per client: the backfill frame it received
    initiated,            \* per client: the ticks whose live payload send was started, in order
    live_completed,       \* per client: the unix_timestamps of the completed_bars it received
    had_live              \* the groups whose live set a client has joined

\* A Resampler taken alone, fed tick by tick (ResamplerSpec).
VARIABLES
    resampler,            \* the Resampler object
    fed,                  \* the arguments of the add_bar calls so far, in order
    emitted               \* the completed bars the calls returned, in order

\* The live regression service (RegressionSpec): LiveRegressionService and
\* the handlers of its WebSocket clients.
VARIABLES
    subscriptions,        \* self.subscriptions: per client, its subscription if any
    calculation_contexts, \* self.calculation_contexts: per context key, the Context if any
    calculation_tasks,    \* self.calculation_tasks: per context key, whether a periodic task is kept
    redis_subscriptions,  \* self.redis_subscriptions: per symbol, the PubSub kept (named by its creator)
    channel_of,           \* per client: the channel the PubSub it created is subscribed to upstream
    rpc,                  \* per client: where its handler is
    request,              \* per client: the query it connected with
    tf_index,             \* per client: add_subscription's position in its timeframes
    closing,              \* per client: the PubSub whose unsubscribe() it awaits
    frames,               \* per client: the error and confirmation frames sent to it, in order
    updated,              \* per client: whether a live_regression_update was sent to it
    ws_closed             \* per client: whether its transport was closed

\* One regression calculation taken alone (CalculationSpec).
VARIABLES
    context,              \* the RegressionCalculationContext
    broadcast             \* the results handed to _broadcast_results, if any

\* The historical Heikin Ashi service (HeikinAshiSpec).
VARIABLES
    ohlc_store,           \* the regular candles of the instrument in the store, oldest first
    ha_request,           \* the window asked for
    ha_pages,             \* the candle lists of the responses so far, in order
    ha_cursor,            \* the request_id of the last response, decoded, if any
    ha_split              \* a series computed at once and in two chunks, if any

\* The application's LiveRegressionService (SetupRaceSpec) has the fields of
\* the service above, and its clients the same positions; in addition:
VARIABLES
    removal               \* per client: where the remove_subscription task that
                          \* _safe_send_json created for it is

\* The paginated regression endpoints (PagingSpec).
VARIABLES
    regression_request,   \* the RegressionRequest posted to /regression and its data
    responses             \* the RegressionResponses so far, in order

managerVars == <<conn_info, subscription_groups, group, payloads, sends, pubsub, stream, pc,
                 view, my_group, bf_bars, transport, cleanup, cache_read, backfill_frame,
                 initiated, live_completed, had_live>>
resamplerVars == <<resampler, fed, emitted>>

regressionVars == <<subscriptions, calculation_contexts, calculation_tasks,
                    redis_subscriptions, channel_of, rpc, request, tf_index, closing, frames,
                    updated, ws_closed>>
calculationVars == <<context, broadcast>>
heikinAshiVars == <<ohlc_store, ha_request, ha_pages, ha_cursor, ha_split>>
setupVars == <<removal>>
pagingVars == <<regression_request, responses>>

\* the variables the connection manager has no part in
elsewhere == <<resamplerVars, regressionVars, calculationVars, heikinAshiVars, setupVars,
               pagingVars>>

vars == <<managerVars, elsewhere>>

\* the variables of the listeners, of the environment, and those of a client's
\* handler a step of another task leaves alone
listenerVars == <<payloads, sends, pubsub, initiated, live_completed>>
envVars == <<stream, transport>>
handlerVars == <<pc, view, my_group, bf_bars, cache_read, backfill_frame>>

\* SubscriptionGroup(channel=..., symbol=symbol): the dataclass defaults.
NewGroup(symbol) ==
    [exists |-> TRUE, symbol |-> symbol, connections |-> {}, resamplers |-> <<>>,
     redis_subscription |-> "None", message_task |-> "None"]
NoGroup ==
    [exists |-> FALSE, symbol |-> "X", connections |-> {}, resamplers |-> <<>>,
     redis_subscription |-> "None", message_task |-> "None"]

\* resampler_key = (interval, timezone)
ResamplerKey(info) == <<info.interval, info.timezone>>

\* What websocket.client_state may read: CONNECTED while the connection is up;
\* once it is lost the framework may or may not have noticed yet.
ClientStates(c) == IF transport[c] = "lost" THEN {"CONNECTED", "DISCONNECTED"} ELSE {"CONNECTED"}

SetupPcs == {"accepted", "subscribing", "lrange", "resampled", "sending"}

\* No Resampler is under test.
ResamplerIdle ==
    /\ resampler = None
    /\ fed = <<>>
    /\ emitted = <<>>

\* ConnectionManager.__init__
ManagerInit ==
    /\ conn_info = [c \in Clients |-> None]
    /\ subscription_groups = [s \in Symbols |-> None]
    /\ group = [g \in GroupIds |-> NoGroup]
    /\ payloads = [g \in GroupIds |-> <<>>]
    /\ sends = {}
    /\ pubsub = [g \in GroupIds |-> <<>>]
    /\ stream = <<>>
    /\ pc = [c \in Clients |-> "init"]
    /\ view = [c \in Clients |-> NoView]
    /\ my_group = [c \in Clients |-> None]
    /\ bf_bars = [c \in Clients |-> <<>>]
    /\ transport = [c \in Clients |-> "open"]
    /\ cleanup = None
    /\ cache_read = [c \in Clients |-> None]
    /\ backfill_frame = [c \in Clients |-> None]
    /\ initiated = [c \in Clients |-> <<>>]
    /\ live_completed = [c \in Clients |-> {}]
    /\ had_live = {}

\* The clients, instruments and context keys ("symbol:timeframe") of the live
\* regression service.
RClients == {"r1", "r2"}
Instruments == {"X", "Y"}
ContextKey(symbol, timeframe) == [symbol |-> symbol, timeframe |-> timeframe]
ContextKeys == { ContextKey(symbol, timeframe) : symbol \in Instruments, timeframe \in {"1s", "5s"} }

\* LiveRegressionService.__init__, and no client yet.
RegressionInit ==
    /\ subscriptions = [c \in RClients |-> None]
    /\ calculation_contexts = [key \in ContextKeys |-> None]
    /\ calculation_tasks = [key \in ContextKeys |-> FALSE]
    /\ redis_subscriptions = [symbol \in Instruments |-> None]
    /\ channel_of = [c \in RClients |-> None]
    /\ rpc = [c \in RClients |-> "init"]
    /\ request = [c \in RClients |-> None]
    /\ tf_index = [c \in RClients |-> 0]
    /\ closing = [c \in RClients |-> None]
    /\ frames = [c \in RClients |-> <<>>]
    /\ updated = [c \in RClients |-> FALSE]
    /\ ws_closed = [c \in RClients |-> FALSE]

\* No calculation is under test.
CalculationIdle ==
    /\ context = None
    /\ broadcast = None

\* No Heikin Ashi request is under test.
HeikinAshiIdle ==
    /\ ohlc_store = <<>>
    /\ ha_request = None
    /\ ha_pages = <<>>
    /\ ha_cursor = None
    /\ ha_split = None

\* the services the connection manager runs beside, with nothing going on
\* No remove_subscription task has been created.
SetupIdle == removal = [c \in RClients |-> "none"]

\* No regression request is under test.
PagingIdle ==
    /\ regression_request = None
    /\ responses = <<>>

Elsewhere ==
    /\ ResamplerIdle /\ RegressionInit /\ CalculationIdle /\ HeikinAshiIdle
    /\ SetupIdle /\ PagingIdle

Init == ManagerInit /\ Elsewhere

(***************************************************************************)
(* remove_connection                                                       *)
(***************************************************************************)
\* self.connections after remove_connection(c)
ConnectionsAfterRemove(ci, c) == [ci EXCEPT ![c] = None]

\* A faulty remove_connection that forgets the discard of line 337.
GroupsAfterRemoveKeepsMember(ci, sg, grp, c) == grp

\* the group objects after remove_connection(c): c is discarded from the live
\* set of the group registered for its symbol, if there is one.
GroupsAfterRemove(ci, sg, grp, c) ==
    IF IsNone(ci[c]) THEN grp
    ELSE LET reg == sg[Get(ci[c]).symbol]
         IN  IF IsNone(reg) THEN grp
             ELSE [grp EXCEPT ![Get(reg)].connections = @ \ {c}]

\* websocket_handler leaves through its finally block: remove_connection, then
\* the handler returns and the connection is closed.  ci and grp are the
\* manager's state at that point.  The handler's locals go away, and the
\* history of the client is kept no longer than its handler runs.
HandlerExit(c, ci, grp) ==
    /\ conn_info' = ConnectionsAfterRemove(ci, c)
    /\ group' = GroupsAfterRemove(ci, subscription_groups, grp, c)
    /\ pc' = [pc EXCEPT ![c] = "done"]
    /\ transport' = [transport EXCEPT ![c] = IF @ = "open" THEN "closed" ELSE @]
    /\ view' = [view EXCEPT ![c] = NoView]
    /\ my_group' = [my_group EXCEPT ![c] = None]
    /\ bf_bars' = [bf_bars EXCEPT ![c] = <<>>]
    /\ cache_read' = [cache_read EXCEPT ![c] = None]
    /\ backfill_frame' = [backfill_frame EXCEPT ![c] = None]
    /\ initiated' = [initiated EXCEPT ![c] = <<>>]
    /\ live_completed' = [live_completed EXCEPT ![c] = {}]
    /\ UNCHANGED <<subscription_groups, payloads, sends, pubsub, stream, cleanup, had_live,
                   elsewhere>>

(***************************************************************************)
(* websocket_handler and add_connection, one action per segment between    *)
(* two awaits.                                                             *)
(***************************************************************************)
\* A client opens /ws/live/{symbol}/{interval}/{timezone}; accept() is awaited.
Accept(c) ==
    /\ pc[c] = "init"
    /\ \A e \in Earlier(c) : pc[e] # "init"
    /\ \E v \in Views : view' = [view EXCEPT ![c] = v]
    /\ pc' = [pc EXCEPT ![c] = "accepted"]
    /\ UNCHANGED <<conn_info, subscription_groups, group, listenerVars, envVars, my_group,
                   bf_bars, cleanup, had_live, cache_read, backfill_frame, elsewhere>>

\* group.resamplers after lines 316-318: a Resampler for the key is created
\* unless there is one.
ResamplersAfterAttach(resamplers, info) ==
    IF ResamplerKey(info) \in DOMAIN resamplers THEN resamplers
    ELSE resamplers @@ (ResamplerKey(info) :> NewResampler(info.interval, info.timezone))

\* add_connection from the group lookup (line 313) to the first await of
\* _send_backfill_data (the cache read).  ci and grp are the manager's state
\* when the segment starts.
AttachToGroup(c, ci, grp) ==
    LET info == Get(ci[c])
        reg == subscription_groups[info.symbol]
    IN  IF IsNone(reg)
        THEN \* self.subscription_groups[channel_key] raises KeyError
             HandlerExit(c, ci, grp)
        ELSE LET g == Get(reg) IN
             IF ResamplerKey(info) \notin DOMAIN grp[g].resamplers /\ ~CanConstruct(info.interval)
             THEN \* the Resampler's constructor raises ValueError
                  HandlerExit(c, ci, grp)
             ELSE LET grp2 == [grp EXCEPT ![g].resamplers = ResamplersAfterAttach(@, info)]
                  IN  \E cs \in ClientStates(c) :
                        IF cs # "CONNECTED"
                        THEN \* line 260: return False, then line 327
                             HandlerExit(c, ci, grp2)
                        ELSE /\ conn_info' = ci
                             /\ group' = grp2
                             /\ my_group' = [my_group EXCEPT ![c] = Some(g)]
                             /\ pc' = [pc EXCEPT ![c] = "lrange"]
                             /\ UNCHANGED <<subscription_groups, listenerVars, envVars, view,
                                            bf_bars, cleanup, had_live, cache_read, backfill_frame,
                                            elsewhere>>

\* add_connection, lines 303-311: register the connection; create and register
\* the group if the symbol has none, and await pubsub.subscribe().
AddConnection(c) ==
    /\ pc[c] = "accepted"
    /\ LET info == view[c]
           ci == [conn_info EXCEPT ![c] = Some(info)]
       IN  IF IsNone(subscription_groups[info.symbol])
           THEN /\ conn_info' = ci
                /\ group' = [group EXCEPT ![c] = NewGroup(info.symbol)]
                /\ subscription_groups' = [subscription_groups EXCEPT ![info.symbol] = Some(c)]
                /\ pc' = [pc EXCEPT ![c] = "subscribing"]
                /\ UNCHANGED <<listenerVars, envVars, view, my_group, bf_bars, cleanup, had_live,
                               cache_read, backfill_frame, elsewhere>>
           ELSE AttachToGroup(c, ci, group)

\* _start_redis_subscription after pubsub.subscribe() returned: the handle and
\* the listener task are stored in the group object the caller holds; then
\* add_connection goes on from line 313.
SubscribeDone(c) ==
    /\ pc[c] = "subscribing"
    /\ AttachToGroup(c, conn_info,
                     [group EXCEPT ![c].redis_subscription = "subscribed",
                                   ![c].message_task = "running"])

\* group.connections after lines 323-324.
ConnectionsAfterBackfill(connections, c, backfill_successful, client_state) ==
    IF backfill_successful /\ client_state = "CONNECTED" THEN connections \cup {c}
    ELSE connections

\* add_connection from the return of _send_backfill_data on, and the handler
\* after it: the client joins the live set and the handler awaits receive_text(),
\* or the handler leaves.  frame is the backfill frame the client got, if any.
AfterBackfill(c, backfill_successful, client_state, frame) ==
    LET g == Get(my_group[c])
        conns == ConnectionsAfterBackfill(group[g].connections, c, backfill_successful,
                                          client_state)
    IN  IF c \in conns
        THEN /\ group' = [group EXCEPT ![g].connections = conns]
             /\ pc' = [pc EXCEPT ![c] = "live"]
             /\ bf_bars' = [bf_bars EXCEPT ![c] = <<>>]
             /\ backfill_frame' = [backfill_frame EXCEPT ![c] = frame]
             /\ had_live' = had_live \cup {g}
             /\ UNCHANGED <<conn_info, subscription_groups, listenerVars, envVars, view,
                            my_group, cleanup, cache_read, elsewhere>>
        ELSE HandlerExit(c, conn_info, group)

\* The Resamplers of the group after the backfill of a client (a faulty
\* variant first: the cached ticks are folded through the group's Resampler
\* of the client's view).
ResamplersFedByBackfill(resamplers, ticks, info) ==
    [resamplers EXCEPT ![ResamplerKey(info)] = FoldTicks(@, ticks, Len(ticks)).resampler]

\* Lines 191-192: resample_ticks_to_bars constructs the Resampler it folds
\* the ticks through; group.resamplers is not among its arguments.
ResamplersAfterBackfill(resamplers, ticks, info) == resamplers

\* _send_backfill_data after redis_client.lrange() returned the cached ticks.
LrangeDone(c) ==
    /\ pc[c] = "lrange"
    /\ IF stream = <<>>
       THEN \E cs \in ClientStates(c) :
              IF cs = "CONNECTED"
              THEN \* await websocket.send_json([])
                   /\ pc' = [pc EXCEPT ![c] = "sending"]
                   /\ cache_read' = [cache_read EXCEPT ![c] = Some(0)]
                   /\ UNCHANGED <<conn_info, subscription_groups, group, listenerVars,
                                  envVars, view, my_group, bf_bars, cleanup, had_live,
                                  backfill_frame,
                                  elsewhere>>
              ELSE \* nothing is sent; return True
                   AfterBackfill(c, TRUE, cs, None)
       ELSE \* resample_ticks_to_bars, up to its await asyncio.sleep(0)
            /\ bf_bars' = [bf_bars EXCEPT ![c] =
                              ResampleTicksToBars(stream, view[c].interval, view[c].timezone)]
            /\ group' = [group EXCEPT ![Get(my_group[c])].resamplers =
                              ResamplersAfterBackfill(@, stream, view[c])]
            /\ pc' = [pc EXCEPT ![c] = "resampled"]
            /\ cache_read' = [cache_read EXCEPT ![c] = Some(Len(stream))]
            /\ UNCHANGED <<conn_info, subscription_groups, listenerVars, envVars,
                           view, my_group, cleanup, had_live, backfill_frame, elsewhere>>

\* _send_backfill_data, lines 280-290: after the resampling, up to the send.
ResampleDone(c) ==
    /\ pc[c] = "resampled"
    /\ \E cs \in ClientStates(c) :
         IF cs # "CONNECTED"
         THEN AfterBackfill(c, FALSE, cs, None)
         ELSE /\ pc' = [pc EXCEPT ![c] = "sending"]
              /\ UNCHANGED <<conn_info, subscription_groups, group, listenerVars, envVars,
                             view, my_group, bf_bars, cleanup, had_live, cache_read, backfill_frame,
                             elsewhere>>

\* What _send_backfill_data returns when its send_json raised: True for
\* WebSocketDisconnect and ConnectionClosed (line 296), False otherwise.
BackfillResultOnError(error) == error \in {"WebSocketDisconnect", "ConnectionClosed"}

\* The backfill send_json() is over: the frame went out, or the send raised.
\* A send to a stalled client does not return.
BackfillSendDone(c) ==
    /\ pc[c] = "sending"
    /\ \/ /\ transport[c] = "open"
          /\ AfterBackfill(c, TRUE, "CONNECTED", Some(bf_bars[c]))
       \/ /\ transport[c] = "lost"
          /\ \E error \in {"WebSocketDisconnect", "RuntimeError"}, cs \in ClientStates(c) :
                AfterBackfill(c, BackfillResultOnError(error), cs, None)

\* The receive loop ends: the client closed, or the connection is lost, and
\* receive_text() raises.
ReceiveLoopEnds(c) ==
    /\ pc[c] = "live"
    /\ transport[c] # "stalled"
    /\ HandlerExit(c, conn_info, group)

Faults == Cardinality({c \in Clients : transport[c] \in {"lost", "stalled"}})

\* the groups a sweep of _cleanup_loop has removed
Swept == { g \in GroupIds : group[g].exists /\ subscription_groups[group[g].symbol] # Some(g) }

\* the groups whose PubSub got a payload that is not JSON
Garbled == { g \in GroupIds : \/ group[g].message_task = "failed"
                              \/ \E i \in DOMAIN pubsub[g] : pubsub[g][i] = 0 }

\* ticks, faults, sweeps and undecodable payloads so far
Events == Len(stream) + Faults + Cardinality(Swept) + Cardinality(Garbled)

\* The connection of a client breaks or is closed by the client.
LoseTransport(c) ==
    /\ Faults < MaxFaults
    /\ Events < MaxEvents
    /\ pc[c] \in SetupPcs
    /\ transport[c] = "open"
    /\ transport' = [transport EXCEPT ![c] = "lost"]
    /\ UNCHANGED <<conn_info, subscription_groups, group, listenerVars, stream, handlerVars,
                   cleanup, had_live, elsewhere>>

\* A live client stops reading for good: sends to it block from now on.
Stall(c) ==
    /\ Faults < MaxFaults
    /\ Events < MaxEvents
    /\ pc[c] = "live"
    /\ transport[c] = "open"
    /\ transport' = [transport EXCEPT ![c] = "stalled"]
    /\ UNCHANGED <<conn_info, subscription_groups, group, listenerVars, stream, handlerVars,
                   cleanup, had_live, elsewhere>>

(***************************************************************************)
(* The listener task of a group: _handle_redis_messages and                *)
(* _process_tick_for_group.                                                *)
(***************************************************************************)
\* A faulty listener that takes the newest message first.
NextMessageNewest(backlog) == Len(backlog)

\* `async for message in pubsub.listen()`: the position in the PubSub's
\* backlog of the message the listener gets next.
NextMessage(backlog) == 1

RemoveAt(q, i) == SubSeq(q, 1, i - 1) \o SubSeq(q, i + 1, Len(q))

\* The listener takes a message only between two _process_tick_for_group
\* calls: line 355 awaits the call, and the call awaits the gather() of its
\* sends.
ListenerReady(g) == \A s \in sends : s.group # g

\* Lines 370-378: add_bar on every Resampler of the group.
ResamplerSteps(resamplers, tick_data) ==
    [key \in DOMAIN resamplers |-> AddBar(resamplers[key], tick_data)]

\* Lines 375-378: the payload of each Resampler key.
Payloads(steps) ==
    [key \in DOMAIN steps |-> [completed_bar |-> steps[key].completed,
                               current_bar |-> steps[key].resampler.current_bar]]

\* A faulty lookup that ignores the interval of the client's view.
PayloadKeyOfFirstView(info) == <<Interval(2, "s"), info.timezone>>

\* Line 389: the key a client's payload is looked up with.
PayloadKey(info) == ResamplerKey(info)

\* A faulty dispatch that sends to every registered connection, live or not.
SendTargetsRegistered(connections, ci, pl) ==
    { c \in Clients : IsSome(ci[c]) /\ PayloadKey(Get(ci[c])) \in DOMAIN pl }

\* Lines 384-391: the clients a payload is sent to.
SendTargets(connections, ci, pl) ==
    { c \in connections : IsSome(ci[c]) /\ PayloadKey(Get(ci[c])) \in DOMAIN pl }

\* json.loads(message['data']) returns: the message is one of the ticks
\* published.  (Message 0 stands for a payload that is not JSON.)
Decodable(message) == message # 0

\* The listener of group g takes the next message and runs
\* _process_tick_for_group up to its await of gather(), which starts the sends.
ListenerTake(g) ==
    /\ group[g].message_task = "running"
    /\ ListenerReady(g)
    /\ pubsub[g] # <<>>
    /\ LET i == NextMessage(pubsub[g])
           k == pubsub[g][i]
           tick_data == stream[k]
       IN  /\ pubsub' = [pubsub EXCEPT ![g] = RemoveAt(@, i)]
           /\ IF ~Decodable(k)
              THEN \* line 354: json.loads raises, and line 358 ends the listener
                   /\ group' = [group EXCEPT ![g].message_task = "failed"]
                   /\ UNCHANGED <<payloads, sends, initiated>>
              ELSE IF group[g].connections = {}
              THEN UNCHANGED <<group, payloads, sends, initiated, elsewhere>>
              ELSE LET steps == ResamplerSteps(group[g].resamplers, tick_data)
                       pl == Payloads(steps)
                       targets == SendTargets(group[g].connections, conn_info, pl)
                   IN  /\ group' = [group EXCEPT ![g].resamplers =
                                       [key \in DOMAIN steps |-> steps[key].resampler]]
                       /\ payloads' = [payloads EXCEPT ![g] = IF targets = {} THEN <<>> ELSE pl]
                       /\ sends' = sends \cup
                              { [group |-> g, client |-> c, tick |-> k,
                                 payload |-> pl[PayloadKey(Get(conn_info[c]))]]
                                : c \in targets }
                       /\ initiated' = [c \in Clients |->
                              IF c \in targets THEN Append(initiated[c], k) ELSE initiated[c]]
    /\ UNCHANGED <<conn_info, subscription_groups, envVars, handlerVars, cleanup, had_live,
                   live_completed, elsewhere>>

\* The local variable payloads once the sends left are `left`: it goes away
\* with the return of _process_tick_for_group.
PayloadsAfter(pl, g, left) ==
    IF \E s \in left : s.group = g THEN pl ELSE [pl EXCEPT ![g] = <<>>]

\* The listener task after one send of its gather() is over (a faulty
\* variant first: the exception of a failed send is raised in the listener,
\* whose `except Exception` ends it).
ListenerStopsOnError(message_task, delivered) ==
    IF delivered THEN message_task ELSE "failed"

\* Line 394: with return_exceptions=True the exception of a failed send is
\* one of the results, which lines 395-400 only log.
ListenerAfterSend(message_task, delivered) == message_task

\* A send_json() of a gather() is over: the payload went out, or the send
\* raised (gather returns the exception, which is logged).  A send to a
\* stalled client does not return.  gather() returns with its last send.
SendFinish(s) ==
    /\ s \in sends
    /\ transport[s.client] # "stalled"
    /\ sends' = sends \ {s}
    /\ group' = [group EXCEPT ![s.group].message_task =
                      ListenerAfterSend(@, transport[s.client] = "open")]
    /\ payloads' = PayloadsAfter(payloads, s.group, sends \ {s})
    /\ live_completed' =
          IF transport[s.client] = "open" /\ IsSome(s.payload.completed_bar)
          THEN [live_completed EXCEPT ![s.client] =
                    @ \cup {Get(s.payload.completed_bar).unix_timestamp}]
          ELSE live_completed
    /\ UNCHANGED <<conn_info, subscription_groups, pubsub, envVars, handlerVars,
                   cleanup, had_live, initiated, elsewhere>>

(***************************************************************************)
(* _cleanup_loop.  (With one symbol a sweep removes at most one group.)    *)
(***************************************************************************)
\* message_task.cancel(): a running listener is cancelled; a task that is
\* over stays as it is.
AfterCancel(message_task) == IF message_task = "running" THEN "cancelled" ELSE message_task

\* Line 406: the keys a sweep removes.
ToRemove(sg, grp) ==
    { sym \in Symbols : IsSome(sg[sym]) /\ grp[Get(sg[sym])].connections = {} }

\* The sleep is over: the group of sym is popped, its listener cancelled (and
\* with it the gather() it awaits), and unsubscribe() is awaited.
CleanupSweep(sym) ==
    /\ IsNone(cleanup)
    /\ Events < MaxEvents
    /\ sym \in ToRemove(subscription_groups, group)
    /\ LET g == Get(subscription_groups[sym])
           left == IF group[g].message_task = "running"
                   THEN { s \in sends : s.group # g } ELSE sends
       IN  /\ subscription_groups' = [subscription_groups EXCEPT ![sym] = None]
           /\ group' = [group EXCEPT ![g].message_task = AfterCancel(@)]
           /\ sends' = left
           /\ payloads' = PayloadsAfter(payloads, g, left)
           /\ pubsub' = [pubsub EXCEPT ![g] = <<>>]
           /\ cleanup' = IF group[g].redis_subscription # "None" THEN Some(g) ELSE None
    /\ UNCHANGED <<conn_info, envVars, handlerVars, initiated, live_completed, had_live, elsewhere>>

\* redis_subscription.unsubscribe() returned; the loop sleeps again.
CleanupUnsubscribed ==
    /\ IsSome(cleanup)
    /\ group' = [group EXCEPT ![Get(cleanup)].redis_subscription = "unsubscribed"]
    /\ cleanup' = None
    /\ UNCHANGED <<conn_info, subscription_groups, listenerVars, envVars, handlerVars,
                   had_live, elsewhere>>

(***************************************************************************)
(* The ingestion pipeline: a tick is appended to intraday_ticks:{symbol}   *)
(* and published on live_ticks:{symbol}; every subscribed PubSub gets it.  *)
(* The feed delivers one tick per unit of time, the first at time 0.       *)
(***************************************************************************)
\* (A PubSub whose listener is over is read by nobody: its backlog is left out.)
Publish ==
    /\ Len(stream) < MaxTicks
    /\ Events < MaxEvents
    /\ stream' = Append(stream, Tick(Len(stream)))
    /\ pubsub' = [g \in GroupIds |->
                     IF group[g].redis_subscription = "subscribed"
                        /\ group[g].message_task = "running"
                     THEN Append(pubsub[g], Len(stream) + 1) ELSE pubsub[g]]
    /\ UNCHANGED <<conn_info, subscription_groups, group, payloads, sends, transport,
                   handlerVars, cleanup, had_live, initiated, live_completed, elsewhere>>

Next ==
    \/ \E c \in Clients : Accept(c)
    \/ \E c \in Clients : AddConnection(c)
    \/ \E c \in Clients : SubscribeDone(c)
    \/ \E c \in Clients : LrangeDone(c)
    \/ \E c \in Clients : ResampleDone(c)
    \/ \E c \in Clients : BackfillSendDone(c)
    \/ \E c \in Clients : ReceiveLoopEnds(c)
    \/ \E c \in Clients : LoseTransport(c)
    \/ \E c \in Clients : Stall(c)
    \/ \E g \in GroupIds : ListenerTake(g)
    \/ \E s \in sends : SendFinish(s)
    \/ \E sym \in Symbols : CleanupSweep(sym)
    \/ CleanupUnsubscribed
    \/ Publish

Spec == Init /\ [][Next]_vars

(***************************************************************************)
(* The connection manager with a feed that may publish, once, a payload    *)
(* that is not JSON on the channel (FeedFaultSpec).                        *)
(***************************************************************************)
PublishUndecodable ==
    /\ Events < MaxEvents
    /\ Garbled = {}
    /\ \E g \in GroupIds : group[g].redis_subscription = "subscribed"
                           /\ group[g].message_task = "running"
    /\ pubsub' = [g \in GroupIds |->
                     IF group[g].redis_subscription = "subscribed"
                        /\ group[g].message_task = "running"
                     THEN Append(pubsub[g], 0) ELSE pubsub[g]]
    /\ UNCHANGED <<conn_info, subscription_groups, group, payloads, sends, stream, transport,
                   handlerVars, cleanup, had_live, initiated, live_completed, elsewhere>>

FeedFaultNext ==
    \/ Next
    \/ PublishUndecodable

FeedFaultSpec == Init /\ [][FeedFaultNext]_vars

(***************************************************************************)
(* Properties of the connection manager (Spec).                            *)
(***************************************************************************)
Live(c) == pc[c] = "live"
Registered(g) == group[g].exists /\ subscription_groups[group[g].symbol] = Some(g)
FrameTimestamps(frame) == { frame[i].unix_timestamp : i \in DOMAIN frame }

\* C1: no unix_timestamp of a bar in a client's backfill frame is carried by a
\* completed_bar of a live payload the client receives later.
\* (Does not hold: the frame ends with the bar in progress, which the live
\* Resampler completes later; and a Resampler that lags behind the cache
\* completes bars the frame already has.)
C1_NoTimestampTwice ==
    \A c \in Clients :
        IsSome(backfill_frame[c]) =>
            FrameTimestamps(Get(backfill_frame[c])) \cap live_completed[c] = {}

\* C2: a live payload is sent to a client only after its backfill step: every
\* send is to a client that has joined the live set, and a client that gets a
\* payload has got its backfill frame.
C2_BackfillFirst ==
    /\ \A s \in sends :
          /\ pc[s.client] \in {"live", "done"}
          /\ transport[s.client] = "open" => IsSome(backfill_frame[s.client])
    /\ \A c \in Clients : initiated[c] # <<>> => Live(c)

C2_Witness ==
    \E s \in sends : Live(s.client) /\ transport[s.client] = "open"
                     /\ \E c \in Clients : pc[c] \in {"resampled", "sending"}
                                           /\ my_group[c] = Some(s.group)

\* C3: a client whose connection is lost between accept and the end of the
\* backfill step is never in a live set.
\* (Does not hold: a backfill send that fails with a disconnect error makes
\* _send_backfill_data return True.)
C3_LostNeverLive ==
    \A c \in Clients, g \in GroupIds :
        c \in group[g].connections => transport[c] # "lost"

\* C4: a tick published after a connecting client's cache read and before the
\* client joins the live set goes, when the listener takes it, into the live
\* Resampler of the client's view.
\* (Does not hold: with an empty live set the listener drops the tick.)
C4_GapTickFed ==
    [][\A c \in Clients, g \in GroupIds :
          ( /\ my_group[c] = Some(g)
            /\ pc[c] \in {"resampled", "sending"}
            /\ pubsub[g] # <<>>
            /\ pubsub'[g] = Tail(pubsub[g])
            /\ group'[g].message_task = "running"
            /\ pubsub[g][1] > Get(cache_read[c]) )
          => group'[g].resamplers[ResamplerKey(view[c])] =
                AddBar(group[g].resamplers[ResamplerKey(view[c])],
                       stream[pubsub[g][1]]).resampler]_vars

\* C5: a client whose send blocks does not keep the listener from the ticks
\* that arrive afterwards: when only sends to stalled clients are left, the
\* listener can take the next tick for the other live clients.
\* (Does not hold: the listener awaits the gather() of all the sends.)
C5_StalledBlocksNobody ==
    \A g \in GroupIds :
        ( /\ group[g].message_task = "running"
          /\ pubsub[g] # <<>>
          /\ \E c \in group[g].connections : Live(c) /\ transport[c] = "open"
          /\ \A s \in sends : s.group = g => transport[s.client] = "stalled" )
        => ListenerReady(g)

\* C6: the sends of live payloads to a client are started in the order in
\* which the ticks were published, and one after the other.
C6_InOrder ==
    /\ \A c \in Clients : \A i, j \in DOMAIN initiated[c] :
          i < j => initiated[c][i] < initiated[c][j]
    /\ \A s1, s2 \in sends : s1.client = s2.client => s1 = s2

C6_Witness == \E c \in Clients : Len(initiated[c]) >= 2

\* Nothing is going on and no sweep is due.
Quiescent ==
    /\ \A c \in Clients : pc[c] = "done"
    /\ IsNone(cleanup)
    /\ ToRemove(subscription_groups, group) = {}

\* C7: once the last live client of a group has left and no client attaches
\* any more, the sweeps leave the group out of the map, its subscription
\* unsubscribed and its listener cancelled.
\* (Does not hold: a group removed while its creator awaits subscribe() gets
\* its subscription and its listener afterwards.)
C7_Released ==
    Quiescent =>
        \A g \in had_live :
            /\ ~Registered(g)
            /\ group[g].message_task # "running"
            /\ group[g].redis_subscription # "subscribed"

\* C8: when the handler of a client returns, the client is neither in the
\* connection map nor in the live set of the group registered for its symbol,
\* and no group is removed, unsubscribed or cancelled by this.
C8_ExitDetaches ==
    [][\A c \in Clients :
          (pc[c] # "done" /\ pc'[c] = "done") =>
             /\ IsNone(conn_info'[c])
             /\ \A g \in GroupIds : Registered(g)' => c \notin group'[g].connections
             /\ subscription_groups' = subscription_groups
             /\ \A g \in GroupIds :
                   /\ group'[g].exists = group[g].exists
                   /\ group'[g].redis_subscription = "unsubscribed"
                         => group[g].redis_subscription = "unsubscribed"
                   /\ group'[g].message_task = "cancelled"
                         => group[g].message_task = "cancelled"]_vars

C8_Witness ==
    \E c \in Clients, g \in had_live :
        /\ pc[c] = "done"
        /\ Registered(g)
        /\ group[g].connections = {}
        /\ group[g].message_task = "running"

\* C9: at most one listener that is not cancelled consumes the channel of a
\* symbol.
\* (Does not hold: a group removed while its creator awaits subscribe() gets
\* a listener nobody cancels, next to the listener of the next group.)
C9_OneListener ==
    \A sym \in Symbols :
        Cardinality({ g \in GroupIds : group[g].symbol = sym
                                       /\ group[g].message_task = "running" }) <= 1

\* C10: for a tick a client is sent at most one payload, the one of the
\* Resampler whose key is the client's view.
C10_OwnView ==
    \A s \in sends :
        /\ Live(s.client) =>
              LET key == ResamplerKey(view[s.client])
              IN  /\ key \in DOMAIN payloads[s.group]
                  /\ s.payload.completed_bar = payloads[s.group][key].completed_bar
                  /\ s.payload.current_bar = group[s.group].resamplers[key].current_bar
        /\ \A s2 \in sends :
              (s2.client = s.client /\ s2.group = s.group /\ s2.tick = s.tick) => s2 = s

C10_Witness ==
    \E s1, s2 \in sends :
        /\ s1.group = s2.group /\ s1.tick = s2.tick
        /\ Live(s1.client) /\ Live(s2.client)
        /\ s1.payload # s2.payload

\* C17: when, while one tick is dispatched, the send to one live client
\* fails (its connection is closed or lost), the sends of that tick to the
\* other clients of the group stay under way and the group's listener is
\* not ended by it: it goes on with the next ticks.
C17_FailedSendIsolated ==
    [][\A s \in sends :
          (s \notin sends' /\ subscription_groups' = subscription_groups
             /\ transport[s.client] # "open")
          => /\ sends' = sends \ {s}
             /\ group'[s.group].message_task = group[s.group].message_task]_vars
\* Two clients of one view in one group whose listener is running; the
\* transport of one was lost before it joined, so every send to it failed;
\* two ticks were dispatched to both, the second after the failure of the
\* first, and every send is over.
C17_Witness ==
    \E c \in Clients : \E o \in Clients \ {c} :
        /\ IsSome(conn_info[c]) /\ IsSome(conn_info[o])
        /\ \E g \in GroupIds :
              /\ {c, o} \subseteq group[g].connections
              /\ group[g].message_task = "running"
              /\ ListenerReady(g)
        /\ PayloadKey(Get(conn_info[c])) = PayloadKey(Get(conn_info[o]))
        /\ initiated[c] = initiated[o] /\ Len(initiated[c]) = 2
        /\ transport[c] = "lost" /\ transport[o] = "open"

\* C23: whenever a client is in the live set of a group (add_connection
\* returned True and remove_connection has not run), that group is the one
\* registered for the client's symbol and its listener has not been
\* cancelled.
\* (Does not hold: a sweep removes a group whose live set is empty while a
\* client is in its backfill step; the client then joins the live set of the
\* removed group.)
C23_LiveGroupIsRegistered ==
    \A c \in Clients, g \in GroupIds :
        (Live(c) /\ c \in group[g].connections) =>
            /\ Registered(g)
            /\ group[g].message_task # "cancelled"

\* C24: a sweep removes a group only if the group's live set has been empty
\* for the whole interval since the previous sweep.  (A sweep that finds
\* the live set of a registered group empty removes the group, so the live
\* set of a registered group was empty at the previous sweep and ever since
\* only if no client has joined it at all: a sweep removes no group whose
\* live set a client has joined.)
\* (Does not hold: the sweep looks at the live set as it is when the sleep
\* ends, and removes a group whose last client has just left.)
C24_EmptySincePreviousSweep ==
    [][\A g \in GroupIds :
          (Registered(g) /\ ~Registered(g)') => g \notin had_live]_vars

\* C25: after the listener of a group has stopped because of an exception,
\* the next attach of a client for the symbol creates the subscription and
\* the listener anew: add_connection leaves no client with a group whose
\* listener has failed.
\* (Does not hold: add_connection creates a group only if the symbol has
\* none registered, and a group whose listener has failed stays registered.)
C25_AttachRecreatesListener ==
    [][\A c \in Clients :
          (pc[c] = "accepted" /\ pc'[c] \notin {"accepted", "done"}) =>
             \A sym \in Symbols :
                (view[c].symbol = sym /\ IsSome(subscription_groups'[sym])) =>
                    group'[Get(subscription_groups'[sym])].message_task # "failed"]_vars

\* C26: a message of the channel whose payload cannot be decoded is dropped
\* and the listener of the group goes on: the step that takes it leaves the
\* listener running.
\* (Does not hold: json.loads raises inside the try of the listener's loop,
\* and its `except Exception` ends the listener.)
C26_UndecodableDropped ==
    [][\A g \in GroupIds :
          (pubsub[g] # <<>> /\ pubsub'[g] = Tail(pubsub[g]) /\ ~Decodable(pubsub[g][1])
             /\ group[g].message_task = "running")
          => group'[g].message_task = "running"]_vars

\* C27: when a send of a live payload to a client fails, the client is
\* removed from the live set of its group: the step in which the failed
\* send is over leaves the client out of it.
\* (Does not hold: the failure is only logged; the client stays in the live
\* set, and is sent the payloads of the next ticks, until its handler
\* leaves.)
C27_FailedSendDetaches ==
    [][\A s \in sends :
          (s \notin sends' /\ subscription_groups' = subscription_groups
             /\ transport[s.client] = "lost" /\ Live(s.client))
          => s.client \notin group'[s.group].connections]_vars

\* C29: the backfill of a connecting client feeds no cached tick into a
\* Resampler of the group: a Resampler of a group changes only by the add_bar
\* of the tick its listener takes from the channel, and a Resampler is in
\* its initial state when it is put into the group.
C29_BackfillLeavesLiveResamplers ==
    [][\A g \in GroupIds :
          /\ \A key \in DOMAIN group[g].resamplers :
                /\ key \in DOMAIN group'[g].resamplers
                /\ group'[g].resamplers[key] # group[g].resamplers[key] =>
                      /\ pubsub[g] # <<>>
                      /\ pubsub'[g] = Tail(pubsub[g])
                      /\ group'[g].resamplers[key] =
                            AddBar(group[g].resamplers[key], stream[pubsub[g][1]]).resampler
          /\ \A key \in DOMAIN group'[g].resamplers \ DOMAIN group[g].resamplers :
                group'[g].resamplers[key] = NewResampler(key[1], key[2])]_vars
\* A client whose backfill has folded a cache that is not empty, while the
\* Resampler of its view in its group is still as constructed.
C29_Witness ==
    \E c \in Clients : \E g \in GroupIds :
        /\ my_group[c] = Some(g)
        /\ pc[c] = "resampled"
        /\ bf_bars[c] # <<>>
        /\ group[g].resamplers[ResamplerKey(view[c])]
              = NewResampler(view[c].interval, view[c].timezone)

\* C32: a Resampler can be constructed for every interval of the supported
\* set, 1d included (the Views are of that set), so a client that presents
\* one, whose connection is up and whose symbol has a registered group, is
\* not turned away when add_connection looks up the Resampler of its view.
\* (Does not hold: _parse_interval knows the units s, m and h only; for 1d
\* the constructor raises ValueError and the handler leaves.)
C32_SupportedIntervalAttaches ==
    [][\A c \in Clients :
          ( /\ pc[c] \in {"accepted", "subscribing"}
            /\ transport[c] = "open"
            /\ IsSome(subscription_groups'[view[c].symbol]) )
          => pc'[c] # "done"]_vars

(***************************************************************************)
(* A Resampler taken alone (ResamplerSpec): it is constructed for an       *)
(* interval and a zone and add_bar is called with one tick after another,  *)
(* in any order of their timestamps; some ticks lack a key.                *)
(***************************************************************************)
\* number of add_bar calls
MaxFed == 3

\* The doubles of the origin and of 1 and 2 microseconds after it.
TickTimes == {0, 4, 8}
Prices == {1, 2, 3}
Volumes == {0, 1}

WellFormedTicks ==
    { [price |-> p, volume |-> v, timestamp |-> t] : p \in Prices, v \in Volumes, t \in TickTimes }
MalformedTicks ==
    { [volume |-> 1, timestamp |-> 4], [price |-> 1, timestamp |-> 4], [price |-> 1, volume |-> 1] }

\* The intervals and zones a Resampler is constructed with.
ResamplerIntervals ==
    { Interval(1, "tick"), Interval(2, "tick"), Interval(4, "s"), Interval(8, "s") }
ResamplerZones == KnownZones

ResamplerInit ==
    /\ ManagerInit
    /\ \E interval \in ResamplerIntervals, timezone_str \in ResamplerZones :
          resampler = Some(NewResampler(interval, timezone_str))
    /\ fed = <<>>
    /\ emitted = <<>>
    /\ RegressionInit
    /\ CalculationIdle
    /\ HeikinAshiIdle
    /\ SetupIdle /\ PagingIdle

\* One call resampler.add_bar(tick_data).
AddBarCall(tick_data) ==
    /\ IsSome(resampler)
    /\ Len(fed) < MaxFed
    /\ LET step == AddBar(Get(resampler), tick_data)
       IN  /\ resampler' = Some(step.resampler)
           /\ emitted' = emitted \o step.completed
    /\ fed' = Append(fed, tick_data)
    /\ UNCHANGED <<managerVars, regressionVars, calculationVars, heikinAshiVars, setupVars,
                   pagingVars>>

ResamplerNext == \E tick_data \in WellFormedTicks \cup MalformedTicks : AddBarCall(tick_data)

ResamplerSpec == ResamplerInit /\ [][ResamplerNext]_vars

(***************************************************************************)
(* Properties of the Resamplers (ResamplerSpec).                           *)
(***************************************************************************)
\* A difference of timestamps, in units, is at least 10^-6 s = 4.194304 units.
AtLeastOneMicrosecond(difference) == difference * 1000000 >= 4194304

\* C11: the completed bars of a Resampler have strictly increasing
\* unix_timestamps, consecutive ones at least a microsecond apart.
\* (Does not hold: the tick Resampler advances a colliding timestamp by
\* adding 0.000001 to a double of epoch magnitude, which moves it by 0.95367
\* microseconds.)
C11_MicrosecondApart ==
    IsSome(resampler) =>
        \A i \in 1..(Len(emitted) - 1) :
            AtLeastOneMicrosecond(emitted[i + 1].unix_timestamp - emitted[i].unix_timestamp)

\* The Resampler under test and what it was fed.
IsTimeResampler == IsSome(resampler) /\ Get(resampler).kind = "time"
IsTickResampler == IsSome(resampler) /\ Get(resampler).kind = "tick"
AllWellFormed == \A i \in DOMAIN fed : WellFormed(fed[i])

RECURSIVE SumVolumes(_)
SumVolumes(items) ==
    IF items = <<>> THEN 0 ELSE items[1].volume + SumVolumes(Tail(items))

RECURSIVE Ascending(_)
Ascending(numbers) ==
    IF numbers = {} THEN <<>>
    ELSE LET least == CHOOSE x \in numbers : \A y \in numbers : x <= y
         IN  <<least>> \o Ascending(numbers \ {least})

\* Open, high, low, close and volume of a non-empty sequence of ticks, as
\* the specification defines them.
Aggregate(ticks) ==
    LET prices == { ticks[i].price : i \in DOMAIN ticks }
    IN  [open |-> ticks[1].price,
         high |-> CHOOSE p \in prices : \A q \in prices : q <= p,
         low |-> CHOOSE p \in prices : \A q \in prices : p <= q,
         close |-> ticks[Len(ticks)].price,
         volume |-> SumVolumes(ticks)]
OHLCV(bar) ==
    [open |-> bar.open, high |-> bar.high, low |-> bar.low, close |-> bar.close,
     volume |-> bar.volume]

\* C12: fed well-formed ticks in any order, the time Resampler's completed
\* bars are the groups of ticks with the same floor(local_t / d), in
\* increasing order (the newest group is the bar in progress): each bar has
\* the open, high, low, close and volume of all the ticks of its group.
\* (Does not hold: a tick older than the bar in progress is merged into it.)
C12_BarsPartitionTicks ==
    (IsTimeResampler /\ AllWellFormed /\ fed # <<>>) =>
        LET r == Get(resampler)
            key(tick) == (tick.timestamp + ZoneOffset(r.tz)) \div r.interval_seconds
            keys == Ascending({ key(fed[i]) : i \in DOMAIN fed })
            members(k) == SelectSeq(fed, LAMBDA tick : key(tick) = k)
        IN  /\ Len(emitted) = Len(keys) - 1
            /\ \A j \in DOMAIN emitted :
                  j <= Len(keys) => OHLCV(emitted[j]) = Aggregate(members(keys[j]))

\* The well-formed ticks fed so far, in arrival order.
Accepted == SelectSeq(fed, WellFormed)

\* The bar the tick-count Resampler owes for a run of consecutive ticks, with
\* the timestamp taken from the run's first tick as it is.
BarOfRun(ticks, tz) ==
    [OHLCV |-> Aggregate(ticks), unix_timestamp |-> FakeUtc(ticks[1].timestamp, tz)]
\* The same, with the timestamp kept after that of the bar completed before.
BarOfRunAfter(ticks, tz, previous) ==
    [OHLCV |-> Aggregate(ticks),
     unix_timestamp |-> UniqueTimestamp(FakeUtc(ticks[1].timestamp, tz), previous)]
Summary(bar) == [OHLCV |-> OHLCV(bar), unix_timestamp |-> bar.unix_timestamp]

\* C13, as stated: with n ticks per bar and k*n + r well-formed ticks fed,
\* exactly k bars are completed, the j-th aggregating ticks (j-1)*n+1..j*n
\* with its timestamp that of the first of them, and the r last ticks are
\* aggregated in current_bar (None when r = 0).
\* (Does not hold: the timestamp of a bar whose first tick is not after the
\* previous completed bar is replaced by that bar's timestamp plus 0.000001.)
C13_AsStated ==
    IsTickResampler =>
        LET r == Get(resampler)
            n == r.ticks_per_bar
            k == Len(Accepted) \div n
            run(j) == SubSeq(Accepted, (j - 1) * n + 1, Min2(j * n, Len(Accepted)))
        IN  /\ Len(emitted) = k
            /\ \A j \in 1..Min2(k, Len(emitted)) : Summary(emitted[j]) = BarOfRun(run(j), r.tz)
            /\ IF Len(Accepted) % n = 0 THEN IsNone(r.current_bar)
               ELSE /\ IsSome(r.current_bar)
                    /\ Summary(Get(r.current_bar)) = BarOfRun(run(k + 1), r.tz)

\* C13, amended: with n ticks per bar and k*n + r well-formed ticks fed,
\* exactly k bars are completed, the j-th aggregating ticks (j-1)*n+1..j*n
\* in order (open first, close last, high max, low min, volume sum), and
\* the r last ticks are aggregated in current_bar (None when r = 0); a bar's
\* timestamp is that of its first tick unless that is not after the previous
\* completed bar's timestamp, and then it is the previous bar's plus 0.000001.
C13_RunsOfN ==
    IsTickResampler =>
        LET r == Get(resampler)
            n == r.ticks_per_bar
            k == Len(Accepted) \div n
            run(j) == SubSeq(Accepted, (j - 1) * n + 1, Min2(j * n, Len(Accepted)))
            previous(j) == IF j = 1 THEN None ELSE Some(emitted[j - 1].unix_timestamp)
        IN  /\ Len(emitted) = k
            /\ \A j \in 1..k : Summary(emitted[j]) = BarOfRunAfter(run(j), r.tz, previous(j))
            /\ r.tick_count = Len(Accepted) % n
            /\ IF Len(Accepted) % n = 0 THEN IsNone(r.current_bar)
               ELSE /\ IsSome(r.current_bar)
                    /\ Summary(Get(r.current_bar))
                          = BarOfRunAfter(run(k + 1), r.tz, previous(k + 1))
\* Two ticks per bar, three well-formed ticks fed: one bar completed, and the
\* bar in progress started by a tick not after it, so with a moved timestamp.
C13_Witness ==
    /\ IsTickResampler
    /\ Get(resampler).ticks_per_bar = 2
    /\ Len(Accepted) = 3
    /\ Len(emitted) = 1
    /\ IsSome(Get(resampler).current_bar)
    /\ Accepted[3].timestamp <= Accepted[1].timestamp
    /\ Get(Get(resampler).current_bar).unix_timestamp = emitted[1].unix_timestamp + Microsecond

CurrentVolume == IF IsSome(Get(resampler).current_bar)
                 THEN Get(Get(resampler).current_bar).volume ELSE 0

\* C14: for either Resampler, after any sequence of add_bar calls, the
\* volumes of the completed bars emitted so far plus the volume of
\* current_bar (0 if there is none) add up to the volumes of all the
\* well-formed ticks fed since construction.
C14_VolumeConserved ==
    IsSome(resampler) => SumVolumes(emitted) + CurrentVolume = SumVolumes(Accepted)
\* A time Resampler fed two ticks of volume 1 in two different bars and one
\* malformed tick: a completed bar and a bar in progress, each of volume 1.
C14_Witness ==
    /\ IsTimeResampler
    /\ Len(fed) = 3 /\ Len(Accepted) = 2
    /\ Len(emitted) = 1 /\ emitted[1].volume = 1
    /\ CurrentVolume = 1

Sound(bar) ==
    /\ bar.low <= bar.open /\ bar.open <= bar.high
    /\ bar.low <= bar.close /\ bar.close <= bar.high
    /\ bar.volume >= 0

\* C15: in every reachable Resampler state the bar in progress and every
\* completed bar have low <= open <= high, low <= close <= high and
\* volume >= 0 (the ticks' volumes being non-negative).
C15_CandleInvariants ==
    IsSome(resampler) =>
        /\ \A j \in DOMAIN emitted : Sound(emitted[j])
        /\ IsSome(Get(resampler).current_bar) => Sound(Get(Get(resampler).current_bar))
\* A completed bar and a bar in progress, each of several ticks with
\* different prices, the later ones above and below the open.
C15_Witness ==
    /\ IsSome(resampler)
    /\ \E j \in DOMAIN emitted : emitted[j].low < emitted[j].open /\ emitted[j].close < emitted[j].high
    /\ \E i \in DOMAIN fed : WellFormed(fed[i]) /\ fed[i].price # fed[1].price

\* C16: add_bar called with a tick lacking price, volume or timestamp
\* returns no completed bar and leaves the whole state of the Resampler
\* (current bar, tick count, last completed timestamp) as it was.
C16_MalformedDropped ==
    [][(fed' # fed /\ ~WellFormed(fed'[Len(fed')]))
          => (resampler' = resampler /\ emitted' = emitted)]_vars
\* A time Resampler holding a bar in progress, after a completed bar, when
\* the last call was made with a malformed tick.
C16_Witness ==
    /\ IsTimeResampler
    /\ Len(fed) = 3 /\ ~WellFormed(fed[3])
    /\ Len(emitted) = 1
    /\ IsSome(Get(resampler).current_bar)

\* C28: once a Resampler, time-based or tick-count, has taken a tick in,
\* the current_bar of every live payload built from it (the Resampler's
\* current_bar after the add_bar call of the payload) is defined.
\* (Does not hold: a tick-count Resampler sets current_bar to None when a
\* tick completes its bar.)
C28_CurrentBarDefined ==
    (IsSome(resampler) /\ Accepted # <<>>) => IsSome(Get(resampler).current_bar)

\* C31: for every display zone and every interval d, each bar of the
\* time-based Resampler starts on a boundary of the local wall clock: its
\* display-local unix_timestamp is a multiple of d.
\* (Does not hold: the floor is taken on the epoch clock and the offset of
\* the zone is added afterwards, so with an offset that is no multiple of d
\* the bars start off the local boundaries.)
C31_LocalBoundaries ==
    IsTimeResampler =>
        /\ \A i \in DOMAIN emitted :
              emitted[i].unix_timestamp % Get(resampler).interval_seconds = 0
        /\ IsSome(Get(resampler).current_bar) =>
              Get(Get(resampler).current_bar).unix_timestamp
                 % Get(resampler).interval_seconds = 0

(***************************************************************************)
(* A 1-minute UTC Resampler taken alone, fed ticks around the bar          *)
(* boundaries (MinuteSpec).  Time is counted in tenths of a second, the    *)
(* interval of the Resampler too.                                          *)
(***************************************************************************)
MinuteResampler == [NewResampler(Interval(1, "m"), "UTC") EXCEPT !.interval_seconds = @ * 10]

\* 59.9 s, 60.1 s and 119.9 s
MinuteTimes == {599, 601, 1199}
MinuteTicks ==
    { [price |-> p, volume |-> 1, timestamp |-> t] : p \in {1, 2}, t \in MinuteTimes }

MinuteInit ==
    /\ ManagerInit
    /\ resampler = Some(MinuteResampler)
    /\ fed = <<>>
    /\ emitted = <<>>
    /\ RegressionInit
    /\ CalculationIdle
    /\ HeikinAshiIdle
    /\ SetupIdle /\ PagingIdle

MinuteNext == \E tick_data \in MinuteTicks : AddBarCall(tick_data)

MinuteSpec == MinuteInit /\ [][MinuteNext]_vars

\* the timestamps of the ticks fed so far, in order
TimesFed == [i \in DOMAIN fed |-> fed[i].timestamp]

\* C30, as stated: the ticks at 59.9 s, 60.1 s and 119.9 s, fed in that order
\* to a fresh 1-minute UTC Resampler, make it emit two completed bars, with
\* boundaries 0 s and 60 s.
C30_AsStated ==
    TimesFed = <<599, 601, 1199>> =>
        /\ Len(emitted) = 2
        /\ emitted[1].unix_timestamp = 0
        /\ emitted[2].unix_timestamp = 600

\* C30: the ticks at 59.9 s, 60.1 s and 119.9 s, fed in that order to a
\* fresh 1-minute UTC Resampler, make it emit one completed bar, with
\* boundary 0 s, on the second tick; the bar with boundary 60 s, which holds
\* the second and the third tick, is still in progress.
C30_OneCompletedOneInProgress ==
    TimesFed = <<599, 601, 1199>> =>
        /\ Len(emitted) = 1
        /\ emitted[1].unix_timestamp = 0
        /\ emitted[1].volume = 1
        /\ IsSome(Get(resampler).current_bar)
        /\ Get(Get(resampler).current_bar).unix_timestamp = 600
        /\ Get(Get(resampler).current_bar).volume = 2
C30_Witness ==
    /\ TimesFed = <<599, 601, 1199>>
    /\ Get(resampler) # MinuteResampler

(***************************************************************************)
(* The live regression service (RegressionSpec): the WebSocket handler     *)
(* live_regression_websocket and LiveRegressionService.add_subscription    *)
(* and remove_subscription, one action per segment between two awaits      *)
(* that other handlers can observe.                                        *)
(***************************************************************************)
MinRegressionLength == 2
MaxRegressionLength == 1000

\* class Interval: the values a timeframe may have (those used here).
IntervalValues == {"1s", "5s", "1d"}

\* What a client may ask for: ?timeframes= after split(","), the
\* regression_length, and ?lookback_periods= after split(",").
TimeframeLists == { <<"1s">>, <<"5s">>, <<"1s", "5s">>, <<"2s">>, <<"1d">> }
RegressionLengths == {1, 2, 1001}
LookbackTexts == {"0", "1", "-1", "x"}
Requests ==
    [symbol : Instruments, timeframes : TimeframeLists,
     regression_length : RegressionLengths,
     lookback_periods : { <<text>> : text \in LookbackTexts }]

\* int(x.strip()): the integer a text denotes; None stands for ValueError.
IntOf(text) ==
    CASE text = "0" -> Some(0)
      [] text = "1" -> Some(1)
      [] text = "-1" -> Some(-1)
      [] OTHER -> None

\* lookback_list, or None when the comprehension raises ValueError.
LookbackList(texts) ==
    IF \E i \in DOMAIN texts : IsNone(IntOf(texts[i])) THEN None
    ELSE Some([i \in DOMAIN texts |-> Get(IntOf(texts[i]))])

\* The checks of the handler, in their order: what the request fails on.
Validation(q) ==
    IF IsNone(LookbackList(q.lookback_periods)) THEN "lookback_periods"
    ELSE IF q.regression_length < MinRegressionLength THEN "too_short"
    ELSE IF q.regression_length > MaxRegressionLength THEN "too_long"
    ELSE IF \E i \in DOMAIN q.timeframes : q.timeframes[i] \notin IntervalValues
         THEN "timeframes"
    ELSE "ok"

\* LiveRegressionSubscription(...) of a request that passed the checks.
Subscription(q) ==
    [symbol |-> q.symbol, timeframes |-> q.timeframes,
     regression_length |-> q.regression_length,
     lookback_periods |-> Get(LookbackList(q.lookback_periods))]

\* RegressionCalculationContext(...) for one timeframe of a subscription.
NewContext(sub, timeframe) ==
    [symbol |-> sub.symbol, interval |-> timeframe,
     regression_length |-> sub.regression_length,
     lookback_periods |-> sub.lookback_periods]

\* BarResampler._parse_interval knows the units s, m and h only: for "1d"
\* the constructor raises ValueError.
ResamplerRaises(timeframe) == timeframe = "1d"

\* The loop of add_subscription over the timeframes from position i on, up
\* to its next await: it stops awaiting the loads of a Context it has just
\* created, or with the exception of the Resampler constructor, or at its end.
RECURSIVE ContextLoop(_, _, _)
ContextLoop(sub, i, contexts) ==
    IF i > Len(sub.timeframes) THEN [at |-> "start_redis", index |-> 0, contexts |-> contexts]
    ELSE LET timeframe == sub.timeframes[i]
             context_key == ContextKey(sub.symbol, timeframe)
         IN  IF context_key \in DOMAIN contexts /\ IsSome(contexts[context_key])
             THEN ContextLoop(sub, i + 1, contexts)
             ELSE IF ResamplerRaises(timeframe)
             THEN [at |-> "failed", index |-> 0, contexts |-> contexts]
             ELSE [at |-> "loading", index |-> i,
                   contexts |-> [contexts EXCEPT ![context_key] =
                                     Some(NewContext(sub, timeframe))]]

\* _start_redis_subscription returns at once when the symbol has a PubSub;
\* otherwise it awaits pubsub.subscribe().
AfterLoop(at, symbol, redis) ==
    IF at = "start_redis"
    THEN IF IsSome(redis[symbol]) THEN "initial" ELSE "subscribing"
    ELSE at

REarlier(c) == IF c = "r2" THEN {"r1"} ELSE {}

Timeframes(sub) == { sub.timeframes[i] : i \in DOMAIN sub.timeframes }

\* Whether client w has a subscription that names the context key.
Names(subs, w, key) ==
    /\ IsSome(subs[w])
    /\ Get(subs[w]).symbol = key.symbol
    /\ key.timeframe \in Timeframes(Get(subs[w]))

\* A client connects with request q: accept(), then the checks.  A request
\* that fails one gets an error frame and the transport is closed; the
\* finally clause finds no subscription to remove.  Otherwise
\* add_subscription starts.
Connect(c, q) ==
    /\ rpc[c] = "init"
    /\ \A e \in REarlier(c) : rpc[e] # "init"
    /\ request' = [request EXCEPT ![c] = Some(q)]
    /\ IF Validation(q) # "ok"
       THEN /\ frames' = [frames EXCEPT ![c] = Append(@, "error")]
            /\ ws_closed' = [ws_closed EXCEPT ![c] = TRUE]
            /\ rpc' = [rpc EXCEPT ![c] = "done"]
            /\ UNCHANGED <<subscriptions, calculation_contexts, tf_index>>
       ELSE LET sub == Subscription(q)
                loop == ContextLoop(sub, 1, calculation_contexts)
            IN  /\ subscriptions' = [subscriptions EXCEPT ![c] = Some(sub)]
                /\ calculation_contexts' = loop.contexts
                /\ tf_index' = [tf_index EXCEPT ![c] = loop.index]
                /\ rpc' = [rpc EXCEPT ![c] = AfterLoop(loop.at, sub.symbol, redis_subscriptions)]
                /\ UNCHANGED <<frames, ws_closed>>
    /\ UNCHANGED <<calculation_tasks, redis_subscriptions, channel_of, closing, updated,
                   managerVars, resamplerVars, calculationVars, heikinAshiVars, setupVars,
                   pagingVars>>

\* _load_historical_data and _load_live_data returned: the periodic task of
\* the Context is started and the loop goes on.
LoadDone(c) ==
    /\ rpc[c] = "loading"
    /\ LET sub == Get(subscriptions[c])
           context_key == ContextKey(sub.symbol, sub.timeframes[tf_index[c]])
           loop == ContextLoop(sub, tf_index[c] + 1, calculation_contexts)
       IN  /\ calculation_tasks' = [calculation_tasks EXCEPT ![context_key] = TRUE]
           /\ calculation_contexts' = loop.contexts
           /\ tf_index' = [tf_index EXCEPT ![c] = loop.index]
           /\ rpc' = [rpc EXCEPT ![c] = AfterLoop(loop.at, sub.symbol, redis_subscriptions)]
    /\ UNCHANGED <<subscriptions, redis_subscriptions, channel_of, request, closing, frames,
                   updated, ws_closed, managerVars, resamplerVars, calculationVars, heikinAshiVars, setupVars,
                   pagingVars>>

\* pubsub.subscribe() returned: the PubSub is kept for the symbol, in place
\* of the one kept before if there is one.
UpstreamSubscribed(c) ==
    /\ rpc[c] = "subscribing"
    /\ LET symbol == Get(subscriptions[c]).symbol
       IN  /\ redis_subscriptions' = [redis_subscriptions EXCEPT ![symbol] = Some(c)]
           /\ channel_of' = [channel_of EXCEPT ![c] = Some(symbol)]
    /\ rpc' = [rpc EXCEPT ![c] = "initial"]
    /\ UNCHANGED <<subscriptions, calculation_contexts, calculation_tasks, request, tf_index,
                   closing, frames, updated, ws_closed, managerVars, resamplerVars,
                   calculationVars, heikinAshiVars, setupVars,
                   pagingVars>>

\* The clients a broadcast for one of the context keys reaches.
Reached(subs, keys) == { w \in RClients : \E key \in keys : Names(subs, w, key) }

\* _send_initial_regression_results (an update goes out where the candles
\* suffice), then the subscription_confirmed frame.
Confirm(c) ==
    /\ rpc[c] = "initial"
    /\ LET sub == Get(subscriptions[c])
           keys == { key \in ContextKeys : Names(subscriptions, c, key)
                                             /\ IsSome(calculation_contexts[key]) }
       IN  \E enough \in SUBSET keys :
              updated' = [w \in RClients |-> updated[w] \/ w \in Reached(subscriptions, enough)]
    /\ frames' = [frames EXCEPT ![c] = Append(@, "subscription_confirmed")]
    /\ rpc' = [rpc EXCEPT ![c] = "live"]
    /\ UNCHANGED <<subscriptions, calculation_contexts, calculation_tasks,
                   redis_subscriptions, channel_of, request, tf_index, closing, ws_closed,
                   managerVars, resamplerVars, calculationVars, heikinAshiVars, setupVars,
                   pagingVars>>

\* One round of calculation_loop that has results to broadcast.
CalculationTick(key) ==
    /\ calculation_tasks[key]
    /\ IsSome(calculation_contexts[key])
    /\ updated' = [w \in RClients |-> updated[w] \/ w \in Reached(subscriptions, {key})]
    /\ UNCHANGED <<subscriptions, calculation_contexts, calculation_tasks,
                   redis_subscriptions, channel_of, rpc, request, tf_index, closing, frames,
                   ws_closed, managerVars, resamplerVars, calculationVars, heikinAshiVars, setupVars,
                   pagingVars>>

\* remove_subscription(c) up to its await of pubsub.unsubscribe(): the
\* service's maps afterwards, and the PubSub to unsubscribe if any.
Removed(c) ==
    LET sub == Get(subscriptions[c])
        subs == [subscriptions EXCEPT ![c] = None]
        dropped == { key \in ContextKeys :
                        /\ key.symbol = sub.symbol
                        /\ key.timeframe \in Timeframes(sub)
                        /\ \A w \in RClients : ~Names(subs, w, key) }
        symbol_subs == { w \in RClients : IsSome(subs[w]) /\ Get(subs[w]).symbol = sub.symbol }
        unsubscribe == symbol_subs = {} /\ IsSome(redis_subscriptions[sub.symbol])
    IN  [subscriptions |-> subs,
         contexts |-> [key \in ContextKeys |->
                          IF key \in dropped THEN None ELSE calculation_contexts[key]],
         tasks |-> [key \in ContextKeys |-> calculation_tasks[key] /\ key \notin dropped],
         redis |-> IF unsubscribe THEN [redis_subscriptions EXCEPT ![sub.symbol] = None]
                   ELSE redis_subscriptions,
         closing |-> IF unsubscribe THEN redis_subscriptions[sub.symbol] ELSE None]

\* The finally clause of the handler of a client that has a subscription.
RemoveSubscription(c) ==
    LET after == Removed(c)
    IN  /\ subscriptions' = after.subscriptions
        /\ calculation_contexts' = after.contexts
        /\ calculation_tasks' = after.tasks
        /\ redis_subscriptions' = after.redis
        /\ closing' = [closing EXCEPT ![c] = after.closing]
        /\ rpc' = [rpc EXCEPT ![c] = IF IsSome(after.closing) THEN "unsubscribing" ELSE "done"]

\* add_subscription returned False: an error frame, close(), and finally.
FailedToInitialize(c) ==
    /\ rpc[c] = "failed"
    /\ frames' = [frames EXCEPT ![c] = Append(@, "error")]
    /\ ws_closed' = [ws_closed EXCEPT ![c] = TRUE]
    /\ RemoveSubscription(c)
    /\ UNCHANGED <<channel_of, request, tf_index, updated, managerVars, resamplerVars,
                   calculationVars, heikinAshiVars, setupVars,
                   pagingVars>>

\* receive_text() raises WebSocketDisconnect: the client has gone.
Disconnect(c) ==
    /\ rpc[c] = "live"
    /\ ws_closed' = [ws_closed EXCEPT ![c] = TRUE]
    /\ RemoveSubscription(c)
    /\ UNCHANGED <<channel_of, request, tf_index, frames, updated, managerVars,
                   resamplerVars, calculationVars, heikinAshiVars, setupVars,
                   pagingVars>>

\* pubsub.unsubscribe() and close() returned.
Unsubscribed(c) ==
    /\ rpc[c] = "unsubscribing"
    /\ channel_of' = [channel_of EXCEPT ![Get(closing[c])] = None]
    /\ closing' = [closing EXCEPT ![c] = None]
    /\ rpc' = [rpc EXCEPT ![c] = "done"]
    /\ UNCHANGED <<subscriptions, calculation_contexts, calculation_tasks,
                   redis_subscriptions, request, tf_index, frames, updated, ws_closed,
                   managerVars, resamplerVars, calculationVars, heikinAshiVars, setupVars,
                   pagingVars>>

RegressionNext ==
    \/ \E c \in RClients, q \in Requests : Connect(c, q)
    \/ \E c \in RClients : LoadDone(c)
    \/ \E c \in RClients : UpstreamSubscribed(c)
    \/ \E c \in RClients : Confirm(c)
    \/ \E key \in ContextKeys : CalculationTick(key)
    \/ \E c \in RClients : FailedToInitialize(c)
    \/ \E c \in RClients : Disconnect(c)
    \/ \E c \in RClients : Unsubscribed(c)

RegressionSpec == Init /\ [][RegressionNext]_vars

\* No subscribe or disconnect operation is under way.
Settled == \A c \in RClients : rpc[c] \in {"init", "live", "done"}

\* C18: after any sequence of completed subscribe and disconnect
\* operations, a Context or a periodic task exists for (instrument, tf) only
\* if a current subscription names that instrument and tf, and an upstream
\* subscription to live_ticks:{instrument} is held only if a current
\* subscription names that instrument.
\* (Does not hold: two clients subscribing at the same time both find no
\* PubSub for the symbol and both subscribe; the first PubSub is replaced in
\* the map and nobody unsubscribes it.)
C18_NothingWithoutSubscriber ==
    Settled =>
        /\ \A key \in ContextKeys :
              (IsSome(calculation_contexts[key]) \/ calculation_tasks[key])
                 => \E c \in RClients : Names(subscriptions, c, key)
        /\ \A symbol \in Instruments :
              (IsSome(redis_subscriptions[symbol])
                  \/ \E c \in RClients : channel_of[c] = Some(symbol))
                 => \E c \in RClients : /\ IsSome(subscriptions[c])
                                        /\ Get(subscriptions[c]).symbol = symbol

\* The requests the specification calls invalid.
InvalidRequest(q) ==
    \/ \E i \in DOMAIN q.timeframes : q.timeframes[i] \notin IntervalValues
    \/ IsNone(LookbackList(q.lookback_periods))
    \/ q.regression_length < MinRegressionLength
    \/ q.regression_length > MaxRegressionLength
    \/ /\ IsSome(LookbackList(q.lookback_periods))
       /\ \E i \in DOMAIN q.lookback_periods : Get(LookbackList(q.lookback_periods))[i] < 0

\* C19: a client that connected with an unknown timeframe, a malformed
\* lookback list, a regression_length below 2 or above 1000, or a negative
\* lookback period got exactly one error frame, its transport was closed,
\* and it has no subscription (so that no Context or task is made for it).
\* (Does not hold: a negative lookback period passes the handler's checks.)
C19_InvalidRejected ==
    \A c \in RClients :
        (IsSome(request[c]) /\ InvalidRequest(Get(request[c])))
            => /\ frames[c] = <<"error">>
               /\ ws_closed[c]
               /\ IsNone(subscriptions[c])
               /\ rpc[c] = "done"
               /\ ~updated[c]

\* C36: every live_regression_update a client receives for a symbol and
\* timeframe was computed with the client's own regression_length and
\* lookback_periods: a client with one timeframe that has received an
\* update has them in the Context of its key, from which the updates of the
\* key are computed.
\* (Does not hold: the Context of a key is created with the parameters of
\* the first subscriber and used as it is for every later one.)
C36_OwnParameters ==
    \A w \in RClients :
        ( /\ updated[w]
          /\ IsSome(subscriptions[w])
          /\ Len(Get(subscriptions[w]).timeframes) = 1 )
        => LET sub == Get(subscriptions[w])
               key == ContextKey(sub.symbol, sub.timeframes[1])
           IN  IsSome(calculation_contexts[key]) =>
                  /\ Get(calculation_contexts[key]).regression_length = sub.regression_length
                  /\ Get(calculation_contexts[key]).lookback_periods = sub.lookback_periods

\* C37: no live_regression_update is sent to a client before its
\* subscription_confirmed frame: the first update of a client is sent in a
\* step before which the client has got that frame.
\* (Does not hold: the subscription is entered in the map when
\* add_subscription starts, so the periodic task of a Context broadcasts to
\* the client while add_subscription is still under way; and
\* add_subscription itself sends the initial results before it returns.)
C37_ConfirmedBeforeUpdates ==
    [][\A w \in RClients :
          (~updated[w] /\ updated'[w]) =>
              \E i \in DOMAIN frames[w] : frames[w][i] = "subscription_confirmed"]_vars

(***************************************************************************)
(* The application's LiveRegressionService (SetupRaceSpec): add_subscription*)
(* of src/app, whose _safe_send_json creates a remove_subscription task    *)
(* when send_json raises the RuntimeError of a closed WebSocket.  One      *)
(* action per segment between two awaits that suspend: send_json, lrange,  *)
(* pubsub.subscribe() and pubsub.unsubscribe().  _load_historical_data     *)
(* awaits nothing, and _start_calculation_task only creates a task.        *)
(***************************************************************************)
\* The subscriptions asked for: those whose timeframes have context keys here.
SetupRequests ==
    { q \in Requests : /\ q.regression_length = MinRegressionLength
                       /\ q.lookback_periods = <<"0">>
                       /\ \A i \in DOMAIN q.timeframes : q.timeframes[i] \in {"1s", "5s"} }

\* How `await websocket.send_json(data)` ends: it returns, it raises the
\* RuntimeError _safe_send_json looks for, or it raises something else.
SendOutcomes == {"sent", "RuntimeError", "Exception"}

\* remove_subscription(c) up to its await of pubsub.unsubscribe(), from the
\* given maps: nothing when c has no subscription.
RemovedFrom(c, contexts, tasks, redis) ==
    IF IsNone(subscriptions[c])
    THEN [subscriptions |-> subscriptions, contexts |-> contexts, tasks |-> tasks,
          redis |-> redis, closing |-> None]
    ELSE LET sub == Get(subscriptions[c])
             subs == [subscriptions EXCEPT ![c] = None]
             dropped == { key \in ContextKeys :
                             /\ key.symbol = sub.symbol
                             /\ key.timeframe \in Timeframes(sub)
                             /\ \A w \in RClients : ~Names(subs, w, key) }
             symbol_subs == { w \in RClients :
                                 IsSome(subs[w]) /\ Get(subs[w]).symbol = sub.symbol }
             unsubscribe == symbol_subs = {} /\ IsSome(redis[sub.symbol])
         IN  [subscriptions |-> subs,
              contexts |-> [key \in ContextKeys |->
                               IF key \in dropped THEN None ELSE contexts[key]],
              tasks |-> [key \in ContextKeys |-> tasks[key] /\ key \notin dropped],
              redis |-> IF unsubscribe THEN [redis EXCEPT ![sub.symbol] = None] ELSE redis,
              closing |-> IF unsubscribe THEN redis[sub.symbol] ELSE None]

\* `await self.remove_subscription(websocket); return False` in
\* add_subscription: where the service and add_subscription are afterwards.
Leave(c, contexts, tasks, redis) ==
    LET after == RemovedFrom(c, contexts, tasks, redis)
    IN  [subscriptions |-> after.subscriptions, contexts |-> after.contexts,
         tasks |-> after.tasks, redis |-> after.redis, closing |-> after.closing,
         rpc |-> IF IsSome(after.closing) THEN "unsubscribing" ELSE "returned_false",
         index |-> 0]

\* The loop of add_subscription over the timeframes from position i on, up
\* to its next suspension: it creates the Context of a new key, and then
\* either finds the WebSocket disconnected or loads the history and awaits
\* the send of the progress frame.
RECURSIVE SetupLoop(_, _, _, _)
SetupLoop(sub, i, contexts, connected) ==
    IF i > Len(sub.timeframes) THEN [at |-> "start_redis", index |-> 0, contexts |-> contexts]
    ELSE LET timeframe == sub.timeframes[i]
             context_key == ContextKey(sub.symbol, timeframe)
             created == [contexts EXCEPT ![context_key] = Some(NewContext(sub, timeframe))]
         IN  IF IsSome(contexts[context_key])
             THEN SetupLoop(sub, i + 1, contexts, connected)
             ELSE IF ~connected
             THEN [at |-> "disconnected", index |-> 0, contexts |-> created]
             ELSE [at |-> "loaded", index |-> i, contexts |-> created]

\* add_subscription from position i of its loop on, up to its next
\* suspension or its return: the loop, then _start_redis_subscription (which
\* returns at once when the symbol has a PubSub), then the final check.
SetupFrom(c, i, connected, tasks, redis) ==
    LET sub == Subscription(Get(request[c]))
        loop == SetupLoop(sub, i, calculation_contexts, connected)
        stay(at, index) ==
            [subscriptions |-> subscriptions, contexts |-> loop.contexts, tasks |-> tasks,
             redis |-> redis, closing |-> None, rpc |-> at, index |-> index]
    IN  CASE loop.at = "loaded" -> stay("loaded", loop.index)
          [] loop.at = "disconnected" -> Leave(c, loop.contexts, tasks, redis)
          [] loop.at = "start_redis" ->
                IF IsNone(redis[sub.symbol]) THEN stay("subscribing", 0)
                ELSE IF connected THEN stay("initial", 0)
                ELSE Leave(c, loop.contexts, tasks, redis)

\* The service and add_subscription of client c become what `after` says.
Becomes(c, after) ==
    /\ subscriptions' = after.subscriptions
    /\ calculation_contexts' = after.contexts
    /\ calculation_tasks' = after.tasks
    /\ redis_subscriptions' = after.redis
    /\ closing' = IF IsSome(after.closing) THEN [closing EXCEPT ![c] = after.closing]
                  ELSE closing
    /\ rpc' = [rpc EXCEPT ![c] = after.rpc]
    /\ tf_index' = [tf_index EXCEPT ![c] = after.index]

\* _safe_send_json after send_json: on the RuntimeError, a
\* remove_subscription task is created if the WebSocket has a subscription.
RemovalAfterSend(c, outcome) ==
    IF outcome = "RuntimeError" /\ IsSome(subscriptions[c])
    THEN [removal EXCEPT ![c] = "scheduled"]
    ELSE removal

\* The handler calls add_subscription: the subscription is stored and the
\* first progress frame is being sent.
Subscribe(c, q) ==
    /\ rpc[c] = "init"
    /\ \A e \in REarlier(c) : rpc[e] # "init"
    /\ ~ws_closed[c]
    /\ request' = [request EXCEPT ![c] = Some(q)]
    /\ subscriptions' = [subscriptions EXCEPT ![c] = Some(Subscription(q))]
    /\ rpc' = [rpc EXCEPT ![c] = "progress"]
    /\ UNCHANGED <<calculation_contexts, calculation_tasks, redis_subscriptions, channel_of,
                   tf_index, closing, frames, updated, ws_closed, setupVars, managerVars,
                   resamplerVars, calculationVars, heikinAshiVars, pagingVars>>

\* The send of the first progress frame ended; the loop starts.
ProgressSent(c, outcome, disconnected) ==
    /\ rpc[c] = "progress"
    /\ outcome = "sent" => ~disconnected
    /\ removal' = RemovalAfterSend(c, outcome)
    /\ ws_closed' = [ws_closed EXCEPT ![c] = disconnected]
    /\ Becomes(c, SetupFrom(c, 1, ~disconnected, calculation_tasks, redis_subscriptions))
    /\ UNCHANGED <<channel_of, request, frames, updated, managerVars, resamplerVars,
                   calculationVars, heikinAshiVars, pagingVars>>

\* The send of the progress frame of a timeframe ended: the check of the
\* connection, then _load_live_data awaits lrange.
LoadedSent(c, outcome, disconnected) ==
    /\ rpc[c] = "loaded"
    /\ outcome = "sent" => ~disconnected
    /\ removal' = RemovalAfterSend(c, outcome)
    /\ ws_closed' = [ws_closed EXCEPT ![c] = disconnected]
    /\ IF disconnected
       THEN Becomes(c, Leave(c, calculation_contexts, calculation_tasks, redis_subscriptions))
       ELSE /\ rpc' = [rpc EXCEPT ![c] = "live_data"]
            /\ UNCHANGED <<subscriptions, calculation_contexts, calculation_tasks,
                           redis_subscriptions, closing, tf_index>>
    /\ UNCHANGED <<channel_of, request, frames, updated, managerVars, resamplerVars,
                   calculationVars, heikinAshiVars, pagingVars>>

\* lrange returned: _start_calculation_task keeps a task for the context
\* key, and the loop goes on.
LiveLoaded(c) ==
    /\ rpc[c] = "live_data"
    /\ LET sub == Subscription(Get(request[c]))
           context_key == ContextKey(sub.symbol, sub.timeframes[tf_index[c]])
       IN  Becomes(c, SetupFrom(c, tf_index[c] + 1, ~ws_closed[c],
                                [calculation_tasks EXCEPT ![context_key] = TRUE],
                                redis_subscriptions))
    /\ UNCHANGED <<channel_of, request, frames, updated, ws_closed, setupVars, managerVars,
                   resamplerVars, calculationVars, heikinAshiVars, pagingVars>>

\* pubsub.subscribe() returned: the PubSub is kept for the symbol; then the
\* final check of the connection.
PubSubSubscribed(c) ==
    /\ rpc[c] = "subscribing"
    /\ LET sub == Subscription(Get(request[c]))
       IN  /\ channel_of' = [channel_of EXCEPT ![c] = Some(sub.symbol)]
           /\ Becomes(c, SetupFrom(c, Len(sub.timeframes) + 1, ~ws_closed[c],
                                   calculation_tasks,
                                   [redis_subscriptions EXCEPT ![sub.symbol] = Some(c)]))
    /\ UNCHANGED <<request, frames, updated, ws_closed, setupVars, managerVars,
                   resamplerVars, calculationVars, heikinAshiVars, pagingVars>>

\* _send_initial_regression_results ended: add_subscription returns True.
InitialSent(c, outcome, disconnected) ==
    /\ rpc[c] = "initial"
    /\ outcome = "sent" => ~disconnected
    /\ removal' = RemovalAfterSend(c, outcome)
    /\ ws_closed' = [ws_closed EXCEPT ![c] = disconnected]
    /\ rpc' = [rpc EXCEPT ![c] = "returned_true"]
    /\ UNCHANGED <<subscriptions, calculation_contexts, calculation_tasks,
                   redis_subscriptions, channel_of, request, tf_index, closing, frames,
                   updated, managerVars, resamplerVars, calculationVars, heikinAshiVars,
                   pagingVars>>

\* pubsub.unsubscribe() and close() returned in the remove_subscription that
\* add_subscription awaits: add_subscription returns False.
LeaveUnsubscribed(c) ==
    /\ rpc[c] = "unsubscribing"
    /\ channel_of' = [channel_of EXCEPT ![Get(closing[c])] = None]
    /\ closing' = [closing EXCEPT ![c] = None]
    /\ rpc' = [rpc EXCEPT ![c] = "returned_false"]
    /\ UNCHANGED <<subscriptions, calculation_contexts, calculation_tasks,
                   redis_subscriptions, request, tf_index, frames, updated, ws_closed,
                   setupVars, managerVars, resamplerVars, calculationVars, heikinAshiVars,
                   pagingVars>>

\* The event loop runs the remove_subscription task of client c, up to its
\* await of pubsub.unsubscribe() or to its end.
RemovalRuns(c) ==
    /\ removal[c] = "scheduled"
    /\ LET after == RemovedFrom(c, calculation_contexts, calculation_tasks,
                                redis_subscriptions)
       IN  /\ subscriptions' = after.subscriptions
           /\ calculation_contexts' = after.contexts
           /\ calculation_tasks' = after.tasks
           /\ redis_subscriptions' = after.redis
           /\ closing' = IF IsSome(after.closing) THEN [closing EXCEPT ![c] = after.closing]
                         ELSE closing
           /\ removal' = [removal EXCEPT ![c] = IF IsSome(after.closing) THEN "unsubscribing"
                                                ELSE "done"]
    /\ UNCHANGED <<channel_of, rpc, request, tf_index, frames, updated, ws_closed,
                   managerVars, resamplerVars, calculationVars, heikinAshiVars, pagingVars>>

\* pubsub.unsubscribe() and close() returned in the task.
RemovalUnsubscribed(c) ==
    /\ removal[c] = "unsubscribing"
    /\ channel_of' = [channel_of EXCEPT ![Get(closing[c])] = None]
    /\ closing' = [closing EXCEPT ![c] = None]
    /\ removal' = [removal EXCEPT ![c] = "done"]
    /\ UNCHANGED <<subscriptions, calculation_contexts, calculation_tasks,
                   redis_subscriptions, rpc, request, tf_index, frames, updated, ws_closed,
                   managerVars, resamplerVars, calculationVars, heikinAshiVars, pagingVars>>

SetupRaceNext ==
    \/ \E c \in RClients, q \in SetupRequests : Subscribe(c, q)
    \/ \E c \in RClients, outcome \in SendOutcomes, disconnected \in BOOLEAN :
          ProgressSent(c, outcome, disconnected)
    \/ \E c \in RClients, outcome \in SendOutcomes, disconnected \in BOOLEAN :
          LoadedSent(c, outcome, disconnected)
    \/ \E c \in RClients : LiveLoaded(c)
    \/ \E c \in RClients : PubSubSubscribed(c)
    \/ \E c \in RClients, outcome \in SendOutcomes, disconnected \in BOOLEAN :
          InitialSent(c, outcome, disconnected)
    \/ \E c \in RClients : LeaveUnsubscribed(c)
    \/ \E c \in RClients : RemovalRuns(c)
    \/ \E c \in RClients : RemovalUnsubscribed(c)

SetupRaceSpec == Init /\ [][SetupRaceNext]_vars

\* add_subscription of client c has returned and the remove_subscription task
\* created for it has ended.
BothFinished(c) ==
    /\ rpc[c] \in {"returned_true", "returned_false"}
    /\ removal[c] = "done"

\* C38: in the application's LiveRegressionService, when a send failure
\* during setup has scheduled remove_subscription concurrently with the
\* running add_subscription of the same websocket, then once both have
\* finished (and no other client has connected) no Context, periodic task or
\* upstream subscription remains that no current subscription refers to.
\* (Does not hold: the task removes the subscription and the Context while
\* add_subscription is suspended; add_subscription then goes on, keeps a
\* periodic task for the context key and subscribes upstream.)
C38_NothingLeftBehind ==
    \A c \in RClients :
        ( /\ BothFinished(c)
          /\ \A w \in RClients \ {c} : rpc[w] = "init" )
        => /\ \A key \in ContextKeys :
                 (IsSome(calculation_contexts[key]) \/ calculation_tasks[key])
                    => \E w \in RClients : Names(subscriptions, w, key)
           /\ \A symbol \in Instruments :
                 IsSome(redis_subscriptions[symbol])
                    => \E w \in RClients : /\ IsSome(subscriptions[w])
                                           /\ Get(subscriptions[w]).symbol = symbol

(***************************************************************************)
(* One regression calculation taken alone (CalculationSpec):               *)
(* _calculate_and_broadcast_regression on a Context with given candles,    *)
(* regression length and lookback periods.                                 *)
(***************************************************************************)
\* A candle, as far as the calculation reads it.
Bar(close, unix_timestamp) == [close |-> close, unix_timestamp |-> unix_timestamp]

\* The live and the historical candles a Context may hold, newest first
\* (closes tell a live candle from a historical one of the same time).
LiveSeries == { <<>>, <<Bar(13, 3)>>, <<Bar(14, 4), Bar(13, 3)>> }
HistoricalSeries ==
    { <<>>, <<Bar(22, 2), Bar(21, 1)>>, <<Bar(23, 3), Bar(22, 2), Bar(21, 1)>>,
      <<Bar(24, 4), Bar(23, 3), Bar(22, 2), Bar(21, 1)>> }
ContextLengths == {2, 3}
ContextLookbacks == { <<0>>, <<1>>, <<2>>, <<0, 1>>, <<1, 0>>, <<-1>>, <<0, -1>>, <<-3, 0>> }

CalculationInit ==
    /\ ManagerInit /\ ResamplerIdle /\ RegressionInit /\ HeikinAshiIdle
    /\ SetupIdle /\ PagingIdle
    /\ \E live_candles \in LiveSeries, historical_candles \in HistoricalSeries,
          regression_length \in ContextLengths, lookback_periods \in ContextLookbacks :
          context = Some([live_candles |-> live_candles,
                          historical_candles |-> historical_candles,
                          regression_length |-> regression_length,
                          lookback_periods |-> lookback_periods])
    /\ broadcast = None

\* sort(key=unix_timestamp, reverse=True): a stable sort, newest first.
RECURSIVE NewestFirst(_)
NewestFirst(candles) ==
    IF candles = <<>> THEN <<>>
    ELSE LET i == CHOOSE i \in DOMAIN candles :
                     /\ \A j \in DOMAIN candles :
                           candles[j].unix_timestamp <= candles[i].unix_timestamp
                     /\ \A j \in 1..(i - 1) :
                           candles[j].unix_timestamp < candles[i].unix_timestamp
         IN  <<candles[i]>> \o NewestFirst(RemoveAt(candles, i))

\* A faulty composition that leaves out no historical candle.
AllCandlesUnfiltered(ctx) == NewestFirst(ctx.live_candles \o ctx.historical_candles)

\* all_candles: the live candles, then the historical candles older than
\* every live candle, sorted newest first.
AllCandles(ctx) ==
    LET live == ctx.live_candles
        older(c) == live = <<>>
                       \/ \A i \in DOMAIN live : c.unix_timestamp < live[i].unix_timestamp
    IN  NewestFirst(live \o SelectSeq(ctx.historical_candles, older))

\* seq[start:stop] of Python, positions counted from 0, negative ones from
\* the end.
PySlice(seq, start, stop) ==
    LET at(i) == IF i < 0 THEN Max2(i + Len(seq), 0) ELSE Min2(i, Len(seq))
    IN  SubSeq(seq, at(start) + 1, at(stop))

\* What the kernel is given for a window of candles (newest first): x is
\* range(len(window)), y the closes of reversed(window).
KernelInput(window) ==
    [x |-> [i \in 1..Len(window) |-> i - 1],
     closes |-> [i \in 1..Len(window) |-> window[Len(window) + 1 - i].close]]

\* The loop over the lookback periods from position i on: the results, or
\* None when stats.linregress raises (it does on empty input), which ends
\* the calculation in the except clause without a broadcast.
RECURSIVE ResultsFrom(_, _, _, _, _)
ResultsFrom(all_candles, regression_length, lookback_periods, i, results) ==
    IF i > Len(lookback_periods) THEN Some(results)
    ELSE LET lookback == lookback_periods[i]
             candles_for_regression ==
                 PySlice(all_candles, lookback, lookback + regression_length)
         IN  IF lookback + regression_length > Len(all_candles)
             THEN ResultsFrom(all_candles, regression_length, lookback_periods, i + 1, results)
             ELSE IF candles_for_regression = <<>> THEN None
             ELSE ResultsFrom(all_candles, regression_length, lookback_periods, i + 1,
                              (ToString(lookback) :> KernelInput(candles_for_regression))
                                 @@ results)

\* _calculate_and_broadcast_regression: the results it broadcasts, or None
\* when it returns without a broadcast.
Calculation(ctx) ==
    LET all_candles == AllCandles(ctx)
    IN  IF Len(all_candles) < ctx.regression_length THEN None
        ELSE ResultsFrom(all_candles, ctx.regression_length, ctx.lookback_periods, 1, <<>>)

Calculate ==
    /\ IsSome(context)
    /\ IsNone(broadcast)
    /\ broadcast' = Some(Calculation(Get(context)))
    /\ UNCHANGED <<context, managerVars, resamplerVars, regressionVars, heikinAshiVars, setupVars,
                   pagingVars>>

CalculationNext == Calculate

CalculationSpec == CalculationInit /\ [][CalculationNext]_vars

\* C20: for a calculation over the composed newest-first series all with
\* regression length L, the results contain the key str(k) of a
\* non-negative lookback k of the Context iff k + L <= len(all), and the
\* value of k is computed from the candles all[k .. k+L-1] in ascending
\* time order with x = 0..L-1.
\* (Does not hold: with a negative lookback in the list the kernel raises
\* on an empty window and no results are broadcast at all.)
C20_LookbackWindows ==
    (IsSome(context) /\ IsSome(broadcast)) =>
        LET ctx == Get(context)
            L == ctx.regression_length
            all == AllCandles(ctx)
            outcome == Get(broadcast)
            has(k) == IsSome(outcome) /\ ToString(k) \in DOMAIN Get(outcome)
        IN  \A i \in DOMAIN ctx.lookback_periods :
               LET k == ctx.lookback_periods[i]
               IN  k >= 0 =>
                     /\ has(k) <=> k + L <= Len(all)
                     /\ has(k) =>
                          Get(outcome)[ToString(k)] =
                             [x |-> [j \in 1..L |-> j - 1],
                              closes |-> [j \in 1..L |-> all[k + L + 1 - j].close]]

\* C34: the composed series of a calculation consists of all live candles
\* and of exactly the historical candles whose unix_timestamp is less than
\* that of the oldest live candle (all of them when there is no live
\* candle), in the order of non-increasing unix_timestamp.
C34_ComposedSeries ==
    IsSome(broadcast) =>
        LET live == Get(context).live_candles
            historical == Get(context).historical_candles
            all == AllCandles(Get(context))
            kept == { i \in DOMAIN historical :
                        \A j \in DOMAIN live :
                            historical[i].unix_timestamp < live[j].unix_timestamp }
        IN  /\ Len(all) = Len(live) + Cardinality(kept)
            /\ \A i \in DOMAIN live : \E k \in DOMAIN all : all[k] = live[i]
            /\ \A i \in DOMAIN historical :
                  i \in kept <=> \E k \in DOMAIN all : all[k] = historical[i]
            /\ \A k \in 1..(Len(all) - 1) :
                  all[k].unix_timestamp >= all[k + 1].unix_timestamp
\* A calculation on a Context with live candles and with historical
\* candles, some older than every live candle and some not.
C34_Witness ==
    /\ IsSome(broadcast)
    /\ Get(context).live_candles # <<>>
    /\ \E i, j \in DOMAIN Get(context).historical_candles :
          /\ Get(context).historical_candles[i].unix_timestamp
                >= Get(context).live_candles[Len(Get(context).live_candles)].unix_timestamp
          /\ \A k \in DOMAIN Get(context).live_candles :
                Get(context).historical_candles[j].unix_timestamp
                   < Get(context).live_candles[k].unix_timestamp

(***************************************************************************)
(* One Context of the live regression service from its creation on         *)
(* (ContextSpec): add_subscription creates it for the first subscriber of  *)
(* the symbol and loads it, then the listener feeds it the ticks           *)
(* published.  stream is the list intraday_ticks:{symbol}.                 *)
(***************************************************************************)
\* The zones a subscription may name; the last one is unknown to ZoneInfo.
SubscriptionZones == KnownZones \cup {"Mars/Phobos"}
ContextIntervals == { Interval(1, "s"), Interval(2, "s") }

\* The candles of the store, by UTC instant, newest first.
StoredCandles == { <<>>, <<Bar(21, 0)>>, <<Bar(22, 1), Bar(21, 0)>> }

\* The records with the display timestamps of a zone, an unknown zone
\* taken as UTC.
LoadHistoricalAnyZone(records, timezone) ==
    [i \in DOMAIN records |->
        Bar(records[i].close, FakeUtc(records[i].unix_timestamp, ResolveZone(timezone)))]

\* _load_historical_data: the records with display timestamps of the
\* Context's zone.  ZoneInfo(context.timezone) raises for an unknown zone on
\* the first record, the except clauses log it, and the list stays empty.
LoadHistoricalData(records, timezone) ==
    IF records # <<>> /\ timezone \notin KnownZones THEN <<>>
    ELSE [i \in DOMAIN records |->
             Bar(records[i].close, FakeUtc(records[i].unix_timestamp, timezone))]

\* _load_live_data: the bars of the cached ticks, newest first.
LoadLiveData(ticks, interval, timezone) ==
    NewestFirst(ResampleTicksToBars(ticks, interval, timezone))

\* A tick is published before the Context exists: it goes to the cache.
PublishToCache ==
    /\ IsNone(context)
    /\ Len(stream) < MaxTicks
    /\ stream' = Append(stream, Tick(Len(stream)))
    /\ UNCHANGED <<context, broadcast, conn_info, subscription_groups, group, payloads, sends,
                   pubsub, transport, handlerVars, cleanup, had_live, initiated,
                   live_completed, resamplerVars, regressionVars, heikinAshiVars, setupVars,
                   pagingVars>>

\* add_subscription, lines 265-285, for a context key that is new.
CreateContext(timezone, interval, records) ==
    /\ IsNone(context)
    /\ context' = Some([interval |-> interval,
                        timezone |-> timezone,
                        regression_length |-> 2,
                        lookback_periods |-> <<0>>,
                        resampler |-> NewResampler(interval, timezone),
                        historical_candles |-> LoadHistoricalData(records, timezone),
                        live_candles |-> LoadLiveData(stream, interval, timezone),
                        stored |-> records])
    /\ UNCHANGED <<broadcast, managerVars, resamplerVars, regressionVars, heikinAshiVars, setupVars,
                   pagingVars>>

\* max(context.lookback_periods)
RECURSIVE MaxOf(_)
MaxOf(numbers) ==
    IF Len(numbers) = 1 THEN numbers[1] ELSE Max2(numbers[1], MaxOf(Tail(numbers)))

\* Lines 535-539: live_candles.insert(0, completed_bar), then the trim.
LiveCandlesAfter(live_candles, completed_bar, regression_length, lookback_periods) ==
    LET inserted == <<completed_bar>> \o live_candles
    IN  SubSeq(inserted, 1,
               Min2(Len(inserted), regression_length + MaxOf(lookback_periods) + 100))

\* A tick is published and _process_new_tick runs for the Context.
ProcessNewTick ==
    /\ IsSome(context)
    /\ Len(stream) < MaxTicks
    /\ LET ctx == Get(context)
           tick_data == Tick(Len(stream))
           step == AddBar(ctx.resampler, tick_data)
       IN  /\ stream' = Append(stream, tick_data)
           /\ IF IsSome(step.completed)
              THEN LET after == [ctx EXCEPT
                                    !.resampler = step.resampler,
                                    !.live_candles =
                                        LiveCandlesAfter(@, Get(step.completed),
                                                         ctx.regression_length,
                                                         ctx.lookback_periods)]
                   IN  /\ context' = Some(after)
                       /\ broadcast' = Some(Calculation(after))
              ELSE /\ context' = Some([ctx EXCEPT !.resampler = step.resampler])
                   /\ UNCHANGED broadcast
    /\ UNCHANGED <<conn_info, subscription_groups, group, payloads, sends,
                   pubsub, transport, handlerVars, cleanup, had_live, initiated,
                   live_completed, resamplerVars, regressionVars, heikinAshiVars, setupVars,
                   pagingVars>>

ContextNext ==
    \/ PublishToCache
    \/ \E timezone \in SubscriptionZones, interval \in ContextIntervals,
          records \in StoredCandles : CreateContext(timezone, interval, records)
    \/ ProcessNewTick

ContextSpec == Init /\ [][ContextNext]_vars

\* C33: when a subscription names an unknown zone, the Context is
\* initialised as if the zone were UTC: its Resampler uses UTC and its
\* historical window holds the candles of the store with UTC display
\* timestamps.
\* (Does not hold: the Resampler falls back to UTC, but the load of the
\* historical window calls ZoneInfo(context.timezone), which raises; the
\* window is left empty.)
C33_UnknownZoneAsUtc ==
    (IsSome(context) /\ Get(context).timezone \notin KnownZones) =>
        /\ Get(context).resampler.tz = "UTC"
        /\ Get(context).historical_candles
              = LoadHistoricalAnyZone(Get(context).stored, "UTC")

\* C35: after the initialisation of a Context and any sequence of live
\* ticks, the unix_timestamps of its live candle vector are strictly
\* decreasing from index 0: no timestamp occurs twice.
\* (Does not hold: the vector is loaded with the bars of the cache, the bar
\* in progress included, while the Context's Resampler starts empty; the
\* bar it completes from the next ticks has the timestamp of that bar.)
C35_OneCandlePerBar ==
    IsSome(context) =>
        \A i, j \in DOMAIN Get(context).live_candles :
            i < j => Get(context).live_candles[i].unix_timestamp
                        > Get(context).live_candles[j].unix_timestamp

(***************************************************************************)
(* The historical Heikin Ashi service (HeikinAshiSpec,                     *)
(* src/Microservices/Port8004.py).  Prices are counted in 1/64 of a price  *)
(* unit, so that the halves and quarters the transform takes are exact.    *)
(* The store holds one candle per unit of time, the oldest at time 1.      *)
(***************************************************************************)
\* number of regular candles in the store
MaxCandles == 3

\* (scaled down)
INITIAL_FETCH_LIMIT == 2

HaPrices == {64, 128}
RegularCandles ==
    { c \in [open : HaPrices, high : HaPrices, low : HaPrices, close : HaPrices] :
         /\ c.low <= c.open /\ c.open <= c.high
         /\ c.low <= c.close /\ c.close <= c.high }

\* The store's candles as Candle objects: timestamp is the position.
Stored(series) ==
    [i \in DOMAIN series |->
        [open |-> series[i].open, high |-> series[i].high, low |-> series[i].low,
         close |-> series[i].close, volume |-> 1, timestamp |-> i]]

HeikinAshiInit ==
    /\ ManagerInit /\ ResamplerIdle /\ RegressionInit /\ CalculationIdle
    /\ SetupIdle /\ PagingIdle
    /\ \E n \in 0..MaxCandles : \E series \in [1..n -> RegularCandles] :
          ohlc_store = Stored(series)
    /\ \E start_utc \in {0, 1} : ha_request = Some([start_utc |-> start_utc])
    /\ ha_pages = <<>>
    /\ ha_cursor = None
    /\ ha_split = None

Max3(a, b, c) == Max2(a, Max2(b, c))
Min3(a, b, c) == Min2(a, Min2(b, c))

\* prev_ha_open and prev_ha_close before the loop (a faulty variant first:
\* the previous candle is not looked at).
SeedIgnored(regular_candles, prev_ha_candle) ==
    LET first_candle == regular_candles[1]
    IN  [open |-> (first_candle.open + first_candle.close) \div 2,
         close |-> (first_candle.open + first_candle.high + first_candle.low
                      + first_candle.close) \div 4]

Seed(regular_candles, prev_ha_candle) ==
    IF IsSome(prev_ha_candle)
    THEN [open |-> Get(prev_ha_candle).open, close |-> Get(prev_ha_candle).close]
    ELSE LET first_candle == regular_candles[1]
         IN  [open |-> (first_candle.open + first_candle.close) \div 2,
              close |-> (first_candle.open + first_candle.high + first_candle.low
                           + first_candle.close) \div 4]

\* The loop of _calculate_heikin_ashi_chunk from position i on.
RECURSIVE HaLoop(_, _, _, _)
HaLoop(regular_candles, i, prev_ha_open, prev_ha_close) ==
    IF i > Len(regular_candles) THEN <<>>
    ELSE LET candle == regular_candles[i]
             ha_close == (candle.open + candle.high + candle.low + candle.close) \div 4
             ha_open == (prev_ha_open + prev_ha_close) \div 2
         IN  <<[open |-> ha_open,
                high |-> Max3(candle.high, ha_open, ha_close),
                low |-> Min3(candle.low, ha_open, ha_close),
                close |-> ha_close,
                volume |-> candle.volume,
                unix_timestamp |-> candle.timestamp,
                regular_open |-> candle.open,
                regular_close |-> candle.close]>>
             \o HaLoop(regular_candles, i + 1, ha_open, ha_close)

\* HeikinAshiService._calculate_heikin_ashi_chunk
CalculateHeikinAshiChunk(regular_candles, prev_ha_candle) ==
    IF regular_candles = <<>> THEN <<>>
    ELSE LET seed == Seed(regular_candles, prev_ha_candle)
         IN  HaLoop(regular_candles, 1, seed.open, seed.close)

Last(seq) == seq[Len(seq)]

\* A series of the store is transformed at once, and as a prefix followed by
\* the rest seeded with the prefix's last Heikin Ashi candle.
SplitAt(i) ==
    /\ IsNone(ha_split)
    /\ ha_pages = <<>>
    /\ i \in 1..Len(ohlc_store)
    /\ LET prefix == CalculateHeikinAshiChunk(SubSeq(ohlc_store, 1, i), None)
           suffix == CalculateHeikinAshiChunk(SubSeq(ohlc_store, i + 1, Len(ohlc_store)),
                                              Some(Last(prefix)))
       IN  ha_split' = Some([at |-> i,
                             whole |-> CalculateHeikinAshiChunk(ohlc_store, None),
                             prefix |-> prefix,
                             suffix |-> suffix])
    /\ UNCHANGED <<ohlc_store, ha_request, ha_pages, ha_cursor, managerVars, resamplerVars,
                   regressionVars, calculationVars, setupVars,
                   pagingVars>>

\* _fetch_data_full_range: the newest `limit` candles of the store between
\* start_utc and end_utc, oldest first, and the end of the next range if
\* the page is full and does not start at start_utc.  (The cursor is one
\* microsecond before the oldest candle of the page: the candles before it.)
FetchDataFullRange(store, start_utc, end_utc, limit) ==
    LET found == SelectSeq(store, LAMBDA c : start_utc <= c.timestamp /\ c.timestamp < end_utc)
        candles == SubSeq(found, Max2(1, Len(found) - limit + 1), Len(found))
    IN  [candles |-> candles,
         next_cursor_timestamp |->
             IF Len(candles) >= limit /\ candles[1].timestamp > start_utc
             THEN Some(candles[1].timestamp) ELSE None]

\* _create_cursor
CreateCursor(next_start, last_ha_candle) ==
    IF IsNone(next_start) THEN None
    ELSE Some([next_start |-> Get(next_start), last_ha_candle |-> last_ha_candle])

\* get_heikin_ashi_data: the first page, of the whole window (which ends
\* after the newest candle).
GetHeikinAshiData ==
    /\ IsNone(ha_split)
    /\ ha_pages = <<>>
    /\ LET fetched == FetchDataFullRange(ohlc_store, Get(ha_request).start_utc,
                                         Len(ohlc_store) + 1, INITIAL_FETCH_LIMIT)
           ha_candles == CalculateHeikinAshiChunk(fetched.candles, None)
       IN  /\ ha_pages' = <<ha_candles>>
           /\ ha_cursor' = IF fetched.candles = <<>> THEN None
                           ELSE CreateCursor(fetched.next_cursor_timestamp, Last(ha_candles))
    /\ UNCHANGED <<ohlc_store, ha_request, ha_split, managerVars, resamplerVars,
                   regressionVars, calculationVars, setupVars,
                   pagingVars>>

\* get_heikin_ashi_chunk with the cursor of the last response.
GetHeikinAshiChunk(limit) ==
    /\ IsSome(ha_cursor)
    /\ LET cursor_data == Get(ha_cursor)
           fetched == FetchDataFullRange(ohlc_store, Get(ha_request).start_utc,
                                         cursor_data.next_start, limit)
           ha_candles == CalculateHeikinAshiChunk(fetched.candles,
                                                  Some(cursor_data.last_ha_candle))
       IN  /\ ha_pages' = Append(ha_pages, ha_candles)
           /\ ha_cursor' = IF fetched.candles = <<>> THEN None
                           ELSE CreateCursor(fetched.next_cursor_timestamp, Last(ha_candles))
    /\ UNCHANGED <<ohlc_store, ha_request, ha_split, managerVars, resamplerVars,
                   regressionVars, calculationVars, setupVars,
                   pagingVars>>

HeikinAshiNext ==
    \/ \E i \in 1..MaxCandles : SplitAt(i)
    \/ GetHeikinAshiData
    \/ \E limit \in {1, 2} : GetHeikinAshiChunk(limit)

HeikinAshiSpec == HeikinAshiInit /\ [][HeikinAshiNext]_vars

\* C21: for any regular candle series split at any index i (the prefix not
\* empty), the Heikin Ashi candles of the whole series are those of the
\* prefix followed by those of the suffix seeded with the last Heikin Ashi
\* candle of the prefix.
C21_ChunkingIsSeamless ==
    IsSome(ha_split) => Get(ha_split).whole = Get(ha_split).prefix \o Get(ha_split).suffix
\* A series of three candles split after the first one, where the seed
\* matters: the suffix computed without it would begin differently.
C21_Witness ==
    /\ IsSome(ha_split)
    /\ Get(ha_split).at = 1
    /\ Len(Get(ha_split).suffix) = 2
    /\ Get(ha_split).suffix
          # CalculateHeikinAshiChunk(SubSeq(ohlc_store, 2, Len(ohlc_store)), None)

\* The pages in chronological order: each page holds older candles than the
\* page before it.
RECURSIVE Chronological(_)
Chronological(pages) ==
    IF pages = <<>> THEN <<>> ELSE Chronological(Tail(pages)) \o pages[1]

\* C22: the Heikin Ashi candles of the first page and of the pages obtained
\* by following the cursors to the end, put in chronological order, are the
\* Heikin Ashi candles of one computation over all regular candles of the
\* window.
\* (Does not hold: the first page is the newest one and is computed without
\* a seed, and every further page, which is older, is seeded with the last,
\* that is the newest, candle of the page before it.)
C22_PagesAreSingleShot ==
    (ha_pages # <<>> /\ IsNone(ha_cursor)) =>
        Chronological(ha_pages)
           = CalculateHeikinAshiChunk(
                 SelectSeq(ohlc_store, LAMBDA c : Get(ha_request).start_utc <= c.timestamp),
                 None)

(***************************************************************************)
(* The paginated regression endpoints of the regression service            *)
(* (PagingSpec): POST /regression, then POST /regression/page with the      *)
(* request_id of the last response.  A RegressionResult is represented by  *)
(* what linregress is given; the keys of a results dict are the lookbacks  *)
(* (str() is one-to-one on them).  Indices are Python's, from 0.           *)
(***************************************************************************)
\* the responses of one request that are followed
MaxPages == 3

\* LOOKBACK_PERIODS_PER_PAGE (20 in the code), scaled to the requests here
LOOKBACK_PERIODS_PER_PAGE == 2

\* RegressionPageRequest.limit (ge=1, le=100): the limits used here
PageLimits == {1, 2, 3}

\* What _fetch_data_with_limit returns for a timeframe: the store holds three
\* candles for "1s" and "5s", and none for "1m".
FetchDataWithLimit(interval_val) ==
    CASE interval_val = "1s" -> <<Bar(11, 1), Bar(12, 2), Bar(13, 3)>>
      [] interval_val = "5s" -> <<Bar(21, 5), Bar(22, 10), Bar(23, 15)>>
      [] OTHER -> <<>>

\* The requests that pass the checks of the /regression endpoint.
RegressionRequests ==
    [regression_length : {2},
     lookback_periods : { <<0>>, <<0, 1>>, <<1, 0, 2>>, <<0, 5, 1>> },
     timeframes : { <<"1s">>, <<"1s", "5s">>, <<"1m", "5s">>, <<"5s", "1m">> }]

PagingInit ==
    /\ ManagerInit /\ ResamplerIdle /\ RegressionInit /\ CalculationIdle /\ HeikinAshiIdle
    /\ SetupIdle
    /\ regression_request \in { Some(q) : q \in RegressionRequests }
    /\ responses = <<>>

\* PaginationState(original_request=request)
NewPaginationState(req) ==
    [original_request |-> req,
     processed_timeframes |-> <<>>,
     current_timeframe_index |-> 0,
     current_lookback_index |-> 0,
     total_results |-> <<>>]

\* _create_pagination_cursor: the fields of the state, as JSON, in base64.
CreatePaginationCursor(state) ==
    [original_request |-> state.original_request,
     processed_timeframes |-> state.processed_timeframes,
     current_timeframe_index |-> state.current_timeframe_index,
     current_lookback_index |-> state.current_lookback_index,
     total_results |-> state.total_results]

\* _decode_pagination_cursor: the PaginationState of the cursor's fields.
DecodePaginationCursor(cursor) ==
    [original_request |-> cursor.original_request,
     processed_timeframes |-> cursor.processed_timeframes,
     current_timeframe_index |-> cursor.current_timeframe_index,
     current_lookback_index |-> cursor.current_lookback_index,
     total_results |-> cursor.total_results]

\* The loop over range(lookback_start, lookback_end): the results dict of a
\* timeframe.
LookbackResults(req, sorted_candles, lookback_start, lookback_end) ==
    LET computed ==
            { lb_index \in lookback_start..(lookback_end - 1) :
                LET lookback == req.lookback_periods[lb_index + 1]
                    end_index == lookback + req.regression_length
                IN  /\ lookback < Len(sorted_candles)
                    /\ end_index <= Len(sorted_candles)
                    /\ Len(PySlice(sorted_candles, lookback, end_index)) >= 2 }
        window(lookback) ==
            PySlice(sorted_candles, lookback, lookback + req.regression_length)
    IN  [lookback \in { req.lookback_periods[lb_index + 1] : lb_index \in computed }
            |-> KernelInput(window(lookback))]

\* The loop of calculate_regression_paginated over the timeframes, from
\* position tf_at (tf_index in the code) on: the state and the results list at its end.
RECURSIVE TimeframeLoop(_, _, _, _, _)
TimeframeLoop(req, page_size, tf_at, state, results) ==
    IF tf_at >= Len(req.timeframes) THEN [state |-> state, results |-> results]
    ELSE IF tf_at < state.current_timeframe_index
    THEN TimeframeLoop(req, page_size, tf_at + 1, state, results)
    ELSE LET timeframe == req.timeframes[tf_at + 1]
             candles == FetchDataWithLimit(timeframe)
             sorted_candles == NewestFirst(candles)
             lookback_start == IF tf_at = state.current_timeframe_index
                               THEN state.current_lookback_index ELSE 0
             lookback_end == Min2(lookback_start + page_size, Len(req.lookback_periods))
             is_partial == lookback_end < Len(req.lookback_periods)
             timeframe_result ==
                 [timeframe |-> timeframe,
                  results |-> LookbackResults(req, sorted_candles, lookback_start,
                                              lookback_end),
                  data_count |-> Len(sorted_candles),
                  is_partial |-> is_partial]
             kept == DOMAIN timeframe_result.results # {}
             moved == IF is_partial
                      THEN [state EXCEPT !.current_timeframe_index = tf_at,
                                         !.current_lookback_index = lookback_end]
                      ELSE [state EXCEPT !.current_lookback_index = 0,
                                         !.processed_timeframes = Append(@, timeframe)]
             after == IF kept
                      THEN [moved EXCEPT !.total_results = Append(@, timeframe_result)]
                      ELSE moved
             listed == IF kept THEN Append(results, timeframe_result) ELSE results
         IN  IF candles = <<>>
             THEN TimeframeLoop(req, page_size, tf_at + 1, state, results)
             ELSE IF is_partial THEN [state |-> after, results |-> listed]
             ELSE TimeframeLoop(req, page_size, tf_at + 1, after, listed)

\* The `is_partial = (...)` of calculate_regression_paginated.
IsPartial(state, req) ==
    \/ state.current_timeframe_index < Len(req.timeframes) - 1
    \/ /\ state.current_timeframe_index = Len(req.timeframes) - 1
       /\ state.current_lookback_index < Len(req.lookback_periods)

\* calculate_regression_paginated(request, page_size): the RegressionResponse.
CalculateRegressionPaginated(req, page_size) ==
    LET loop == TimeframeLoop(req, page_size, 0, NewPaginationState(req), <<>>)
        is_partial == IsPartial(loop.state, req)
    IN  [request_params |-> req,
         regression_results |-> loop.results,
         is_partial |-> is_partial,
         request_id |-> IF is_partial THEN Some(CreatePaginationCursor(loop.state))
                        ELSE None]

\* get_next_regression_page(page_request)
GetNextRegressionPage(request_id, limit) ==
    LET state == DecodePaginationCursor(request_id)
    IN  CalculateRegressionPaginated(state.original_request, limit)

\* POST /regression
CalculateRegression ==
    /\ IsSome(regression_request)
    /\ responses = <<>>
    /\ responses' = <<CalculateRegressionPaginated(Get(regression_request),
                                                   LOOKBACK_PERIODS_PER_PAGE)>>
    /\ UNCHANGED <<regression_request, managerVars, resamplerVars, regressionVars,
                   calculationVars, heikinAshiVars, setupVars>>

\* POST /regression/page with the request_id of the last response.
GetRegressionPage(limit) ==
    /\ responses # <<>>
    /\ Len(responses) < MaxPages
    /\ IsSome(Last(responses).request_id)
    /\ responses' = Append(responses,
                           GetNextRegressionPage(Get(Last(responses).request_id), limit))
    /\ UNCHANGED <<regression_request, managerVars, resamplerVars, regressionVars,
                   calculationVars, heikinAshiVars, setupVars>>

PagingNext ==
    \/ CalculateRegression
    \/ \E limit \in PageLimits : GetRegressionPage(limit)

PagingSpec == PagingInit /\ [][PagingNext]_vars

\* C39: calculate_regression_paginated returns is_partial = false and no
\* request_id whenever every lookback period of every requested timeframe
\* was processed within the response, as it is when the request has no more
\* lookbacks than the page size.
\* (Does not hold: a timeframe that is finished leaves
\* current_timeframe_index where it was and sets current_lookback_index to
\* 0, and the final test compares these two with the lengths.)
C39_CompleteIsNotPartial ==
    ( /\ responses # <<>>
      /\ Len(Get(regression_request).lookback_periods) <= LOOKBACK_PERIODS_PER_PAGE )
    => /\ ~responses[1].is_partial
       /\ IsNone(responses[1].request_id)

\* The position (from 0) of a value in a list that holds it once.
IndexOf(list, value) == (CHOOSE i \in DOMAIN list : list[i] = value) - 1

\* C40: each /regression/page call resumes at the timeframe and lookback
\* index stored in the cursor it is given, and returns lookback results not
\* returned by earlier pages.
\* (Does not hold: get_next_regression_page decodes the cursor and passes
\* only its original_request on; calculate_regression_paginated starts from
\* a new PaginationState, at timeframe 0 and lookback 0, so every page
\* begins again and, with is_partial always true, no last page comes.)
C40_PagesResumeAndProgress ==
    \A j \in 2..Len(responses) :
        LET req == Get(regression_request)
            cursor == Get(responses[j - 1].request_id)
            page == responses[j].regression_results
        IN  /\ \A n \in DOMAIN page :
                  LET at == IndexOf(req.timeframes, page[n].timeframe)
                  IN  /\ at >= cursor.current_timeframe_index
                      /\ at = cursor.current_timeframe_index =>
                            \A lookback \in DOMAIN page[n].results :
                               IndexOf(req.lookback_periods, lookback)
                                  >= cursor.current_lookback_index
            /\ \A i \in 1..(j - 1) :
                  \A n \in DOMAIN page, m \in DOMAIN responses[i].regression_results :
                     page[n].timeframe = responses[i].regression_results[m].timeframe
                        => DOMAIN page[n].results
                              \cap DOMAIN responses[i].regression_results[m].results = {}

=============================================================================
